---- MODULE Spec2Model ----
(***************************************************************************)
(* The hardware bridges of the robot (robot/src/plugins/actuators/         *)
(* hardware): the PWM worker thread driving the PCA9685 and the tokio      *)
(* tasks driving the USB DC motor controller, together with the tick-loop  *)
(* systems that feed them (listen_to_pwms, listen_to_dc_motors, shutdown). *)
(*                                                                         *)
(* Time is counted in units of 100 ms.  The code only ever compares         *)
(* `timestamp.elapsed()` with a threshold, so each timestamp is kept as    *)
(* its age (time elapsed since it was taken), saturated just above the     *)
(* threshold it is compared with.                                          *)
(*                                                                         *)
(* The two bridges share no state: each has its own channel, its own       *)
(* worker and its own device.  A behaviour follows one bridge, the one     *)
(* whose Startup system succeeded (`started`); the systems of the other    *)
(* are switched off by run_if(resource_exists).                            *)
(*                                                                         *)
(* Left out: last_armed (only feeds a log line), and the Err results of    *)
(* set_pwms and tx_out.send, which are reported and change no local.       *)
(*                                                                         *)
(* The DC controller end of the link (Pong, MotorState) is part of         *)
(* SpecLink only; under Spec the controller sends nothing after the        *)
(* version reply.  Packets the ping and telemetry tasks skip are not put   *)
(* in their queues.                                                        *)
(*                                                                         *)
(* The control systems of the tick loop are followed one at a time: the    *)
(* PID controller (SpecPid), the thruster current clamp and slew limit     *)
(* (SpecThrust), the Update schedule of the PID and thruster systems       *)
(* (SpecSched) and the servo accumulator (SpecServo).  An f32 is a whole   *)
(* number of thousandths (N as mN, A as mA, s as ms); update_axis_maximums *)
(* touches none of the components followed and is left out.                *)
(*                                                                         *)
(* The functions of the libraries (signal ranges, the motor table and its  *)
(* indexes, reverse_solve and forward_solve, binary_search_force_ratio)    *)
(* are followed one call at a time in `lib`, over the inputs their Init    *)
(* draws (SpecRange, SpecIndex, SpecSolve, SpecSearch).  SpecLinkFair is   *)
(* SpecLink under the scheduling of the tokio runtime.                     *)
(***************************************************************************)
EXTENDS Integers, Sequences, FiniteSets, TLC

VARIABLES
    started,      \* which bridge's Startup system inserted its channel resource
    robot_armed,  \* the Armed component of the local robot
    exit_flag,    \* SignalState: check_handler sends AppExit every frame once set
    frame,        \* position of the tick loop inside PostUpdate / Last
    pwm_rx,       \* crossbeam bounded(30) channel tick loop -> PWM thread
    pwm,          \* locals of the PWM thread
    chip,         \* PCA9685: last pulse widths written and the output-enable pin
    pwm_obs,      \* what the latest PWM cycle did (errors sent, state at write)
    dc_rx,        \* tokio mpsc::channel(10) tick loop -> DC output task
    dc,           \* locals of the DC "signal output and setup" task
    ping,         \* the DC ping task
    dc_out,       \* packets handed to tx_out: startup log, latest tick's packets
    dc_obs,       \* what the latest tick of the DC output task did
    rx_in,        \* tokio broadcast::channel(10): one queue per subscriber
    telem,        \* the DC telemetry read-back task and the CurrentDraw it wrote
    controller,   \* the DC motor controller at the other end of the USB link
    pid,          \* a PidController with its PidConfig and its latest PidResult
    thr,          \* accumulate_motor_forces: its Local and what its latest run did
    sched,        \* the Update schedule: systems run, command buffers, components
    servo,        \* a servo: its MotorTargets entry, its MotorSignal, the latest tick
    lib           \* one call of a function of the libraries: its input and its result

worldVars == <<started, robot_armed, exit_flag>>
pwmVars == <<pwm_rx, pwm, chip, pwm_obs>>
linkVars == <<rx_in, telem, controller>>
dcVars == <<dc_rx, dc, ping, dc_out, dc_obs, linkVars>>
ctlVars == <<pid, thr, sched, servo, lib>>
vars == <<worldVars, frame, pwmVars, dcVars, ctlVars>>

----------------------------------------------------------------------------
(* Program constants                                                       *)

NUM_CHANNELS == 16
NEUTRAL_US == 1500
\* Duration::from_secs_f32(1.0 / 10.0) = 100 ms = 1 unit
max_inactive == 1
\* Duration::from_millis(1500) = 15 units
arming_duration == 15
\* channel::bounded(30)
PwmCapacity == 30
\* mpsc::channel(10)
DcCapacity == 10
\* const STOP_SIGNALS: [i16; 4]
NUM_DC_CHANNELS == 4
\* broadcast::channel(10)
BroadcastCapacity == 10
\* let mut tx_id = 100
FirstPingId == 100
\* an f32 is kept as a whole number of thousandths
FixedPoint == 1000
\* a force ratio is kept as a whole number of ten-thousandths
RatioOne == 10000
\* clamp_amperage(.., 0.01): epsilon, in mA
ClampEpsilon == 10

(* Bounds of the model                                                     *)

\* events the tick loop lets pile up before it starts another frame
MaxBacklog == 1
\* ReadProtocolVersion requests the controller may answer with another packet
MaxVersionRetries == 2
\* Pings the ping task sends
MaxPings == 2
\* calls of PidController::update in a run
MaxPidUpdates == 4
\* passes of the loop of binary_search_force_ratio that are followed
MaxSearchPasses == 40
\* runs of accumulate_motor_forces in a run
MaxThrustTicks == 2
\* ticks of the Update schedule in a run
MaxSchedTicks == 2
\* runs of handle_servo_input in a run
MaxServoTicks == 4
MaxKeySteps == 40

Channels == 0 .. (NUM_CHANNELS - 1)
STOP_SIGNALS == [c \in Channels |-> NEUTRAL_US]
STOP_PWMS == [c \in Channels |-> NEUTRAL_US]

\* PWM channels that carry a motor entity, and the raw signals they take
\* (MotorRawSignalRange of a PWM channel clamps to 1100..1900)
PwmMotors == {3}
PwmSignals == {1100, 1900}
ACTIVE_SIGNALS == [c \in Channels |-> IF c \in PwmMotors THEN 1900 ELSE NEUTRAL_US]

Min(a, b) == IF a < b THEN a ELSE b
Range(f) == {f[x] : x \in DOMAIN f}

----------------------------------------------------------------------------
(* PwmEvent                                                                *)

ArmEvent(a) == [type |-> "Arm", armed |-> a, signals |-> STOP_SIGNALS]
BatchEvent(b) == [type |-> "Batch", armed |-> "Disarmed", signals |-> b]
ShutdownEvent == [type |-> "Shutdown", armed |-> "Disarmed", signals |-> STOP_SIGNALS]

\* listen_to_pwms: start from STOP_SIGNALS, overwrite the channel of every motor
ChannelBatch(sig) == [c \in Channels |-> IF c \in DOMAIN sig THEN sig[c] ELSE STOP_SIGNALS[c]]
Batches == {ChannelBatch(sig) : sig \in [PwmMotors -> PwmSignals]}

----------------------------------------------------------------------------
(* The PWM thread                                                          *)

\* `src` is history, not program state: where channel_pwms comes from.
\*   "stop"  - assigned from STOP_PWMS
\*   "fresh" - copied from a Batch received since the thread last became Armed
\*   "stale" - copied from a Batch received before the thread was last disarmed
Disarmed(w) == [w EXCEPT !.armed = "Disarmed",
                         !.src = IF w.src = "fresh" THEN "stale" ELSE w.src]
SetStop(w) == [w EXCEPT !.channel_pwms = STOP_PWMS, !.src = "stop"]

\* (a slip: the edge test placed after `armed = Armed`, so it never holds)
PwmOnArm_TestAfterAssign(w) ==
    [w EXCEPT !.last_arm_elapsed = 0, !.armed = "Armed"]

\* PwmEvent::Arm(Armed::Armed)
PwmOnArm(w) ==
    [w EXCEPT !.last_arm_elapsed = 0,
              !.last_rearm_elapsed = IF w.armed # "Armed" THEN 0 ELSE w.last_rearm_elapsed,
              !.armed = "Armed"]

\* match event { ... } inside `for event in rx_data.try_iter()`
PwmOnEvent(w, ev) ==
    CASE ev.type = "Arm" /\ ev.armed = "Armed" ->
            PwmOnArm(w)
      [] ev.type = "Arm" /\ ev.armed = "Disarmed" ->
            SetStop(Disarmed(w))
      [] ev.type = "Batch" ->
            IF w.armed = "Armed"
            THEN [w EXCEPT !.channel_pwms = ev.signals, !.src = "fresh"]
            ELSE SetStop(w)
      [] ev.type = "Shutdown" ->
            [SetStop(Disarmed(w)) EXCEPT !.do_shutdown = TRUE]

\* (a slip: the dead-man reports and clears the signals but stays Armed)
PwmDeadMan_StaysArmed(w) ==
    IF w.armed = "Armed" /\ w.last_arm_elapsed > max_inactive
    THEN [SetStop(w) EXCEPT !.inactivity = TRUE]
    ELSE w

\* "Update state": the dead-man
PwmDeadMan(w) ==
    IF w.armed = "Armed" /\ w.last_arm_elapsed > max_inactive
    THEN [SetStop(Disarmed(w)) EXCEPT !.inactivity = TRUE]
    ELSE w

\* the ESC soft start
PwmSoftStart(w) ==
    IF w.armed = "Armed" /\ w.last_rearm_elapsed < arming_duration
    THEN SetStop(w)
    ELSE w

\* (a slip: the Disarmed arm of the match does not call output_disable)
PwmOutputEnable_NoDisable(w) == w.armed = "Armed" \/ chip.output_enabled

\* "Sync state with pwm chip": the output-enable pin
PwmOutputEnable(w) == w.armed = "Armed"

\* "Sync state with pwm chip": the pulse widths handed to set_pwms
PwmSync(w) == IF w.armed = "Armed" THEN w ELSE SetStop(w)

PwmInit ==
    [pc |-> "drain", armed |-> "Disarmed", channel_pwms |-> STOP_PWMS,
     last_arm_elapsed |-> 0, last_rearm_elapsed |-> 0,
     do_shutdown |-> FALSE, inactivity |-> FALSE, src |-> "stop",
     batch_seen |-> FALSE, since_edge |-> 0]

\* (a slip: no `break` after Shutdown)
PwmAfterEvent_NoBreak(w) == "drain"

\* `break` after Shutdown, otherwise on to the next event of try_iter()
PwmAfterEvent(w) == IF w.do_shutdown THEN "update" ELSE "drain"

\* one iteration of `for event in rx_data.try_iter()`
\* (batch_seen, since_edge: history, a Batch arrived in this cycle and the
\* time since armed last went from Disarmed to Armed)
PwmDrain ==
    /\ started = "pwm"
    /\ pwm.pc = "drain"
    /\ pwm_rx # <<>>
    /\ LET ev == Head(pwm_rx)
           w == PwmOnEvent(pwm, ev)
       IN pwm' = [w EXCEPT
                    !.pc = PwmAfterEvent(w),
                    !.batch_seen = @ \/ ev.type = "Batch",
                    !.since_edge = IF pwm.armed = "Disarmed" /\ w.armed = "Armed"
                                   THEN 0 ELSE @]
    /\ pwm_rx' = Tail(pwm_rx)
    /\ UNCHANGED <<worldVars, frame, chip, pwm_obs, dcVars, ctlVars>>

\* try_iter() finds the channel empty
PwmDrained ==
    /\ started = "pwm"
    /\ pwm.pc = "drain"
    /\ pwm_rx = <<>>
    /\ pwm' = [pwm EXCEPT !.pc = "update"]
    /\ UNCHANGED <<worldVars, frame, pwm_rx, chip, pwm_obs, dcVars, ctlVars>>

\* dead-man, soft start, chip sync and set_pwms of one cycle
PwmUpdate ==
    /\ started = "pwm"
    /\ pwm.pc = "update"
    /\ LET w1 == PwmDeadMan([pwm EXCEPT !.inactivity = FALSE])
           w2 == PwmSoftStart(w1)
           w3 == PwmSync(w2)
       IN /\ chip' = [pwms |-> w3.channel_pwms, output_enabled |-> PwmOutputEnable(w2)]
          /\ pwm_obs' = [armed |-> w3.armed,
                         batch_seen |-> w3.batch_seen,
                         inactivity |-> w1.inactivity,
                         src |-> w3.src,
                         after_shutdown |->
                            IF w3.do_shutdown
                            THEN Min(pwm_obs.after_shutdown + 1, 2)
                            ELSE pwm_obs.after_shutdown]
          /\ pwm' = [w3 EXCEPT !.pc = "sleep"]
    /\ UNCHANGED <<worldVars, frame, pwm_rx, dcVars, ctlVars>>

\* thread::sleep(remaining), then `while !do_shutdown`
PwmSleep ==
    /\ started = "pwm"
    /\ pwm.pc = "sleep"
    /\ pwm' = [pwm EXCEPT !.pc = IF pwm.do_shutdown THEN "done" ELSE "drain",
                          !.batch_seen = FALSE]
    /\ UNCHANGED <<worldVars, frame, pwm_rx, chip, pwm_obs, dcVars, ctlVars>>

\* 100 ms pass.  A cycle's own work takes microseconds; the thread spends
\* its time in thread::sleep (or descheduled at that point).
PwmTime ==
    /\ started = "pwm"
    /\ pwm.pc = "sleep"
    /\ pwm' = [pwm EXCEPT
                 !.last_arm_elapsed = Min(@ + 1, max_inactive + 1),
                 !.last_rearm_elapsed = Min(@ + 1, arming_duration),
                 !.since_edge = Min(@ + 1, arming_duration)]
    /\ pwm' # pwm
    /\ UNCHANGED <<worldVars, frame, pwm_rx, chip, pwm_obs, dcVars, ctlVars>>

----------------------------------------------------------------------------
(* DcMotorEvent                                                            *)

DcChannels == 0 .. (NUM_DC_CHANNELS - 1)
\* DC channels that carry a motor entity, in query order, and their outputs
\* (one frame gives every DC motor the same output)
DcMotors == <<0, 1>>
DcSpeeds == {-1000, 1000}
\* the ids a Ping or Pong may carry
PingIds == FirstPingId .. (FirstPingId + MaxPings)
\* the motor whose state the controller streams, and the current it reports
StreamedMotors == {0}
StreamedDraw == 3
DC_STOP_SIGNALS == [i \in DcChannels |-> 0]
EmptyMap == [c \in {} |-> 0]

DcArmEvent(a) == [type |-> "Arm", armed |-> a, channel |-> 0, pwm |-> 0]
UpdateChannelEvent(c, v) == [type |-> "UpdateChannel", armed |-> "Disarmed", channel |-> c, pwm |-> v]
BatchCompleteEvent == [type |-> "BatchComplete", armed |-> "Disarmed", channel |-> 0, pwm |-> 0]
DcShutdownEvent == [type |-> "Shutdown", armed |-> "Disarmed", channel |-> 0, pwm |-> 0]

----------------------------------------------------------------------------
(* The DC "signal output and setup" task                                   *)

\* HashMap::insert
MapInsert(m, k, v) == [c \in (DOMAIN m) \cup {k} |-> IF c = k THEN v ELSE m[c]]

\* (a slip: BatchComplete applied without the batch_started test)
DcOnBatchComplete_Untested(d) ==
    [d EXCEPT !.batch_started = FALSE,
              !.armed = "Armed",
              !.channel_pwms = d.next_channel_pwms,
              !.next_channel_pwms = EmptyMap,
              !.last_batch_elapsed = 0,
              !.src = "fresh"]

\* DcMotorEvent::BatchComplete
DcOnBatchComplete(d) ==
    IF d.batch_started
    THEN [d EXCEPT !.batch_started = FALSE,
                   !.armed = "Armed",
                   !.channel_pwms = d.next_channel_pwms,
                   !.next_channel_pwms = EmptyMap,
                   !.last_batch_elapsed = 0,
                   !.src = "fresh"]
    ELSE d

\* (a slip: UpdateChannel inserted without the batch_started test)
DcOnEvent_AnyUpdate(d, ev) ==
    CASE ev.type = "Arm" /\ ev.armed = "Armed" ->
            [d EXCEPT !.batch_started = TRUE, !.next_channel_pwms = EmptyMap]
      [] ev.type = "Arm" /\ ev.armed = "Disarmed" ->
            [Disarmed(d) EXCEPT !.batch_started = FALSE]
      [] ev.type = "UpdateChannel" ->
            [d EXCEPT !.next_channel_pwms = MapInsert(@, ev.channel, ev.pwm)]
      [] ev.type = "BatchComplete" ->
            DcOnBatchComplete(d)
      [] ev.type = "Shutdown" ->
            [Disarmed(d) EXCEPT !.do_shutdown = TRUE]

\* match event { ... } inside `while let Ok(event) = rx_data.try_recv()`
DcOnEvent(d, ev) ==
    CASE ev.type = "Arm" /\ ev.armed = "Armed" ->
            [d EXCEPT !.batch_started = TRUE, !.next_channel_pwms = EmptyMap]
      [] ev.type = "Arm" /\ ev.armed = "Disarmed" ->
            [Disarmed(d) EXCEPT !.batch_started = FALSE]
      [] ev.type = "UpdateChannel" ->
            IF d.batch_started
            THEN [d EXCEPT !.next_channel_pwms = MapInsert(@, ev.channel, ev.pwm)]
            ELSE d
      [] ev.type = "BatchComplete" ->
            DcOnBatchComplete(d)
      [] ev.type = "Shutdown" ->
            [Disarmed(d) EXCEPT !.do_shutdown = TRUE]

\* `break` after Shutdown, otherwise on to the next try_recv()
DcAfterEvent(d) == IF d.do_shutdown THEN "update" ELSE "drain"

\* (a slip: the dead-man reports the error but does not disarm)
DcDeadMan_ReportsOnly(d) ==
    IF d.armed = "Armed" /\ d.last_batch_elapsed > max_inactive
    THEN [d EXCEPT !.inactivity = TRUE]
    ELSE d

\* "Update state": the dead-man
DcDeadMan(d) ==
    IF d.armed = "Armed" /\ d.last_batch_elapsed > max_inactive
    THEN [Disarmed(d) EXCEPT !.inactivity = TRUE]
    ELSE d

\* (a slip: channel_pwms is not cleared when Disarmed)
DcSync_NoClear(d) == d

\* "Sync state with pwm chip": channel_pwms.clear() when Disarmed
DcSync(d) ==
    IF d.armed = "Armed"
    THEN d
    ELSE [d EXCEPT !.channel_pwms = EmptyMap, !.src = "stop"]

\* "Generate the pwm states for each channel"
DcPwms(d) ==
    [i \in DcChannels |->
        IF i \in DOMAIN d.channel_pwms THEN d.channel_pwms[i] ELSE DC_STOP_SIGNALS[i]]

\* the packet each step of the startup sequence hands to tx_out
DcStartupPacket(pc) ==
    CASE pc = "version" -> "ReadProtocolVersion"
      [] pc = "setup_armed" -> "SetArmed(Disarmed)"
      [] pc = "setup_stream" -> "StartStream(all)"
      [] pc = "setup_speed" -> "SetSpeed(all,0)"

\* (a slip: `connected` signalled before the zero speeds are sent)
DcStartupNext_EarlyNotify(pc) ==
    CASE pc = "version" -> "version_reply"
      [] pc = "setup_armed" -> "setup_stream"
      [] pc = "setup_stream" -> "notify"
      [] pc = "setup_speed" -> "notify"

\* the step that follows each step of the startup sequence
DcStartupNext(pc) ==
    CASE pc = "version" -> "version_reply"
      [] pc = "setup_armed" -> "setup_stream"
      [] pc = "setup_stream" -> "setup_speed"
      [] pc = "setup_speed" -> "notify"

DcInit ==
    [pc |-> "version", retries |-> 0, connected |-> FALSE,
     next_channel_pwms |-> EmptyMap, batch_started |-> FALSE,
     armed |-> "Disarmed", channel_pwms |-> EmptyMap, last_batch_elapsed |-> 0,
     do_shutdown |-> FALSE, inactivity |-> FALSE, src |-> "stop",
     since_arm |-> 0, last_arm |-> "none", batch_seen |-> FALSE]

\* the packets handed to tx_out are kept, in order, until `connected` is
\* signalled
Logged(pkt) == IF dc.connected THEN dc_out.log ELSE Append(dc_out.log, pkt)

\* tx_out.send(..) of the startup sequence
DcStartupSend ==
    /\ started = "dc"
    /\ dc.pc \in {"version", "setup_armed", "setup_stream", "setup_speed"}
    /\ dc_out' = [dc_out EXCEPT !.log = Logged(DcStartupPacket(dc.pc))]
    /\ dc' = [dc EXCEPT !.pc = DcStartupNext(dc.pc)]
    /\ UNCHANGED <<worldVars, frame, pwmVars, dc_rx, ping, dc_obs, linkVars, ctlVars>>

\* rx_in.recv() returns the ProtocolVersionResponse
DcVersionReply ==
    /\ started = "dc"
    /\ dc.pc = "version_reply"
    /\ dc' = [dc EXCEPT !.pc = "setup_armed", !.retries = 0]
    /\ UNCHANGED <<worldVars, frame, pwmVars, dc_rx, ping, dc_out, dc_obs, linkVars, ctlVars>>

\* rx_in.recv() returns some other packet: ask again
DcVersionOther ==
    /\ started = "dc"
    /\ dc.pc = "version_reply"
    /\ dc.retries < MaxVersionRetries
    /\ dc' = [dc EXCEPT !.pc = "version", !.retries = @ + 1]
    /\ UNCHANGED <<worldVars, frame, pwmVars, dc_rx, ping, dc_out, dc_obs, linkVars, ctlVars>>

\* connected.notify_waiters(): wakes the tasks waiting on a Notified future
\* that exists at this moment; no permit is stored for later ones
DcNotify ==
    /\ started = "dc"
    /\ dc.pc = "notify"
    /\ dc' = [dc EXCEPT !.pc = "tick", !.connected = TRUE]
    /\ ping' = [ping EXCEPT !.pc = IF @ = "waiting" THEN "interval" ELSE @]
    /\ dc_out' = [dc_out EXCEPT !.log = <<>>]
    /\ UNCHANGED <<worldVars, frame, pwmVars, dc_rx, dc_obs, linkVars, ctlVars>>

\* interval.tick() completes
DcTick ==
    /\ started = "dc"
    /\ dc.pc = "tick"
    /\ dc' = [dc EXCEPT !.pc = "drain", !.batch_seen = FALSE]
    /\ UNCHANGED <<worldVars, frame, pwmVars, dc_rx, ping, dc_out, dc_obs, linkVars, ctlVars>>

\* one iteration of `while let Ok(event) = rx_data.try_recv()`
\* (since_arm, last_arm, batch_seen: history, the time since the last
\* Arm(Armed) was received, the latest Arm event received, and whether an
\* UpdateChannel or BatchComplete was received in this tick after it)
DcDrain ==
    /\ started = "dc"
    /\ dc.pc = "drain"
    /\ dc_rx # <<>>
    /\ LET ev == Head(dc_rx)
           d == DcOnEvent(dc, ev)
       IN dc' = [d EXCEPT
                   !.pc = DcAfterEvent(d),
                   !.since_arm = IF ev.type = "Arm" /\ ev.armed = "Armed" THEN 0 ELSE @,
                   !.last_arm = IF ev.type = "Arm" THEN ev.armed ELSE @,
                   !.batch_seen = ev.type \in {"UpdateChannel", "BatchComplete"}
                                    \/ (ev.type # "Arm" /\ @)]
    /\ dc_rx' = Tail(dc_rx)
    /\ UNCHANGED <<worldVars, frame, pwmVars, ping, dc_out, dc_obs, linkVars, ctlVars>>

\* try_recv() finds the channel empty
DcDrained ==
    /\ started = "dc"
    /\ dc.pc = "drain"
    /\ dc_rx = <<>>
    /\ dc' = [dc EXCEPT !.pc = "update"]
    /\ UNCHANGED <<worldVars, frame, pwmVars, dc_rx, ping, dc_out, dc_obs, linkVars, ctlVars>>

\* dead-man, SetArmed and the four SetSpeed packets of one tick
DcUpdate ==
    /\ started = "dc"
    /\ dc.pc = "update"
    /\ LET d1 == DcDeadMan([dc EXCEPT !.inactivity = FALSE])
           d2 == DcSync(d1)
       IN /\ dc_out' = [dc_out EXCEPT !.armed = d1.armed, !.speeds = DcPwms(d2)]
          /\ dc_obs' = [ticks |-> Min(dc_obs.ticks + 1, 1),
                        inactivity |-> d1.inactivity,
                        src |-> d2.src,
                        faults |-> IF dc_out.armed = "Armed" /\ d1.armed = "Disarmed"
                                   THEN 1 ELSE dc_obs.faults]
          /\ dc' = [d2 EXCEPT !.pc = IF d2.do_shutdown THEN "done" ELSE "tick"]
    /\ UNCHANGED <<worldVars, frame, pwmVars, dc_rx, ping, linkVars, ctlVars>>

\* 100 ms pass while the task waits for its interval
DcTime ==
    /\ started = "dc"
    /\ dc.pc = "tick"
    /\ dc' = [dc EXCEPT
                !.last_batch_elapsed = Min(@ + 1, max_inactive + 1),
                !.since_arm = Min(@ + 1, max_inactive + 1)]
    /\ dc' # dc
    /\ UNCHANGED <<worldVars, frame, pwmVars, dc_rx, ping, dc_out, dc_obs, linkVars, ctlVars>>

----------------------------------------------------------------------------
(* The link to the DC motor controller: tx_in / rx_in                      *)

\* broadcast::channel(10): a subscriber that is 10 packets behind loses the
\* oldest one and its next recv() returns Err(Lagged)
Subscriber == [q |-> <<>>, lagged |-> FALSE]
BroadcastTo(sub, pkt) ==
    IF Len(sub.q) >= BroadcastCapacity
    THEN [q |-> Append(Tail(sub.q), pkt), lagged |-> TRUE]
    ELSE [sub EXCEPT !.q = Append(@, pkt)]
Broadcast(pkt) == [s \in DOMAIN rx_in |-> BroadcastTo(rx_in[s], pkt)]

\* PacketC2H (ProtocolVersionResponse is taken by the output task during
\* startup; the ping and telemetry tasks skip it like any other packet)
Pong(id) == [type |-> "Pong", id |-> id, current_draw |-> 0]
MotorState(m, c) == [type |-> "MotorState", id |-> m, current_draw |-> c]

\* the controller answers the Ping it was sent; the id it puts into the Pong
\* is its own business
ControllerPong ==
    /\ started = "dc"
    /\ controller.pinged
    /\ \E id \in PingIds : rx_in' = Broadcast(Pong(id))
    /\ controller' = [controller EXCEPT !.pinged = FALSE]
    /\ UNCHANGED <<worldVars, frame, pwmVars, dc_rx, dc, ping, dc_out, dc_obs, telem, ctlVars>>

\* StartStream: the controller reports the state of a motor
ControllerMotorState ==
    /\ started = "dc"
    /\ dc.connected
    /\ controller.streams
    /\ \E m \in StreamedMotors : rx_in' = Broadcast(MotorState(m, StreamedDraw))
    /\ UNCHANGED <<worldVars, frame, pwmVars, dc_rx, dc, ping, dc_out, dc_obs, telem,
                   controller, ctlVars>>

----------------------------------------------------------------------------
(* The DC ping task                                                        *)

\* `if !acked { un_acked_pings += 1 } else { un_acked_pings = 0 }`
PingCount(p, acked) ==
    [p EXCEPT !.un_acked_pings = IF acked THEN 0 ELSE @ + 1]

\* `break tx_id == rx_id`: tx_id was incremented right after the send
PingAcked(p, rx_id) == p.tx_id = rx_id

\* connected.notified(): the Notified future is created
PingWait ==
    /\ started = "dc"
    /\ ping.pc = "start"
    /\ ping' = [ping EXCEPT !.pc = "waiting"]
    /\ UNCHANGED <<worldVars, frame, pwmVars, dc_rx, dc, dc_out, dc_obs, linkVars, ctlVars>>

\* interval.tick(), then tx_out.send(Ping { id: tx_id }) and tx_id += 1
\* (sent_id: history, the id the Ping carried)
PingSend ==
    /\ started = "dc"
    /\ ping.pc = "interval"
    /\ ping.tx_id < FirstPingId + MaxPings
    /\ ping' = [ping EXCEPT !.pc = "await_pong", !.sent_id = ping.tx_id,
                            !.tx_id = @ + 1]
    /\ dc_out' = [dc_out EXCEPT !.log = Logged("Ping")]
    /\ controller' = [controller EXCEPT !.pinged = TRUE]
    /\ UNCHANGED <<worldVars, frame, pwmVars, dc_rx, dc, dc_obs, rx_in, telem, ctlVars>>

\* time::timeout(max_ping_latency, rx_in.recv()) returns a packet or
\* Err(Lagged) before the deadline: a Pong ends the wait, anything else is
\* skipped
PingRecv ==
    /\ started = "dc"
    /\ ping.pc = "await_pong"
    /\ LET sub == rx_in.ping IN
       IF sub.lagged
       THEN /\ rx_in' = [rx_in EXCEPT !.ping.lagged = FALSE]
            /\ UNCHANGED ping
       ELSE /\ sub.q # <<>>
            /\ rx_in' = [rx_in EXCEPT !.ping.q = Tail(@)]
            /\ IF Head(sub.q).type = "Pong"
               THEN ping' = [PingCount(ping, PingAcked(ping, Head(sub.q).id))
                                EXCEPT !.pc = "interval"]
               ELSE UNCHANGED ping
    /\ UNCHANGED <<worldVars, frame, pwmVars, dc_rx, dc, dc_out, dc_obs, telem,
                   controller, ctlVars>>

\* the deadline passes with nothing to receive: `break false`
PingDone ==
    /\ started = "dc"
    /\ ping.pc = "await_pong"
    /\ rx_in.ping = Subscriber
    /\ ping' = [PingCount(ping, FALSE) EXCEPT !.pc = "interval"]
    /\ UNCHANGED <<worldVars, frame, pwmVars, dc_rx, dc, dc_out, dc_obs, linkVars, ctlVars>>

----------------------------------------------------------------------------
(* The DC telemetry read-back task                                         *)

\* `rx_in.recv().await?` on Err(Lagged): the `?` returns the error from the
\* task's async block, which ends the task (lagged: history)
TelemOnLagged(t) == [t EXCEPT !.lagged = TRUE, !.pc = "done"]

\* one `rx_in.recv().await?` of the loop
TelemRecv ==
    /\ started = "dc"
    /\ telem.pc = "recv"
    /\ LET sub == rx_in.telem IN
       IF sub.lagged
       THEN /\ rx_in' = [rx_in EXCEPT !.telem.lagged = FALSE]
            /\ telem' = TelemOnLagged(telem)
       ELSE /\ sub.q # <<>>
            /\ rx_in' = [rx_in EXCEPT !.telem.q = Tail(@)]
            /\ IF Head(sub.q).type = "MotorState"
               THEN telem' = [telem EXCEPT !.pc = "main", !.state = Head(sub.q)]
               ELSE UNCHANGED telem
    /\ UNCHANGED <<worldVars, frame, pwmVars, dc_rx, dc, ping, dc_out, dc_obs,
                   controller, ctlVars>>

\* ctx.run_on_main_thread(..): between two frames the tick loop runs the
\* closure, which inserts CurrentDraw on the entity of that DC channel
TelemOnMainThread ==
    /\ started = "dc"
    /\ telem.pc = "main"
    /\ frame.pc = "idle"
    /\ telem' = [telem EXCEPT
                   !.pc = "recv",
                   !.current_draw = IF telem.state.id \in Range(DcMotors)
                                    THEN [@ EXCEPT ![telem.state.id] = telem.state.current_draw]
                                    ELSE @]
    /\ UNCHANGED <<worldVars, frame, pwmVars, dc_rx, dc, ping, dc_out, dc_obs, rx_in,
                   controller, ctlVars>>

----------------------------------------------------------------------------
(* The tick loop: PostUpdate (listen_to_pwms, listen_to_dc_motors) and     *)
(* Last (shutdown)                                                         *)

\* crossbeam Sender::send on a bounded channel: Err once the receiver is
\* dropped (the thread has returned), otherwise it parks the caller while
\* the channel is full and enqueues as soon as there is room.
PwmDisconnected == pwm.pc = "done"
PwmFull == Len(pwm_rx) >= PwmCapacity

PwmSend(ev, next_pc) ==
    IF PwmDisconnected
    THEN /\ frame' = [frame EXCEPT !.pc = "last", !.error = TRUE]
         /\ UNCHANGED pwm_rx
    ELSE IF PwmFull
    THEN /\ ~frame.blocked
         /\ frame' = [frame EXCEPT !.blocked = TRUE]
         /\ UNCHANGED pwm_rx
    ELSE /\ pwm_rx' = Append(pwm_rx, ev)
         /\ frame' = [frame EXCEPT !.pc = next_pc, !.blocked = FALSE]

\* tokio mpsc Sender::blocking_send: Err once the receiver is dropped,
\* otherwise it blocks the calling thread until the channel has capacity.
DcDisconnected == dc.pc = "done"
DcFull == Len(dc_rx) >= DcCapacity

DcBlockingSend(ev, next_pc, next_idx, next_speed) ==
    IF DcDisconnected
    THEN /\ frame' = [frame EXCEPT !.pc = "last", !.error = TRUE]
         /\ UNCHANGED dc_rx
    ELSE IF DcFull
    THEN /\ ~frame.blocked
         /\ frame' = [frame EXCEPT !.blocked = TRUE]
         /\ UNCHANGED dc_rx
    ELSE /\ dc_rx' = Append(dc_rx, ev)
         /\ frame' = [frame EXCEPT !.pc = next_pc, !.idx = next_idx,
                                   !.speed = next_speed, !.blocked = FALSE]

FrameInit == [pc |-> "idle", blocked |-> FALSE, error |-> FALSE, idx |-> 1,
              speed |-> 0, exit_read |-> FALSE]

\* the schedule runner starts the next frame; the systems of a bridge run
\* only if its Startup system inserted the channel resource
BeginFrame(backlog) ==
    /\ frame.pc = "idle"
    /\ \/ started = "pwm" /\ Len(pwm_rx) <= backlog
       \/ started = "dc" /\ Len(dc_rx) <= backlog
    /\ frame' = [frame EXCEPT !.pc = IF started = "pwm" THEN "pwm_arm" ELSE "dc_arm",
                              !.error = FALSE, !.idx = 1]
    /\ UNCHANGED <<worldVars, pwmVars, dcVars, ctlVars>>

\* listen_to_pwms: channels.0.send(PwmEvent::Arm(*armed))
ListenToPwmsArm ==
    /\ frame.pc = "pwm_arm"
    /\ PwmSend(ArmEvent(robot_armed), "pwm_batch")
    /\ UNCHANGED <<worldVars, pwm, chip, pwm_obs, dcVars, ctlVars>>

\* listen_to_pwms: channels.0.send(PwmEvent::Batch(channel_batch))
ListenToPwmsBatch(batches) ==
    /\ frame.pc = "pwm_batch"
    /\ \E b \in batches : PwmSend(BatchEvent(b), "last")
    /\ UNCHANGED <<worldVars, pwm, chip, pwm_obs, dcVars, ctlVars>>

\* shutdown (pwm.rs): one PwmEvent::Shutdown per AppExit event read, the
\* result of send is ignored
PwmShutdown ==
    /\ frame.pc = "last"
    /\ started = "pwm"
    /\ IF exit_flag /\ ~PwmDisconnected
       THEN IF PwmFull
            THEN /\ ~frame.blocked
                 /\ frame' = [frame EXCEPT !.blocked = TRUE]
                 /\ UNCHANGED pwm_rx
            ELSE /\ pwm_rx' = Append(pwm_rx, ShutdownEvent)
                 /\ frame' = [frame EXCEPT !.pc = "idle", !.blocked = FALSE,
                                           !.exit_read = TRUE]
       ELSE /\ frame' = [frame EXCEPT !.pc = "idle", !.exit_read = exit_flag]
            /\ UNCHANGED pwm_rx
    /\ UNCHANGED <<worldVars, pwm, chip, pwm_obs, dcVars, ctlVars>>

\* listen_to_dc_motors: blocking_send(DcMotorEvent::Arm(*armed))
ListenToDcArm ==
    /\ frame.pc = "dc_arm"
    /\ DcBlockingSend(DcArmEvent(robot_armed), "dc_update", 1, 0)
    /\ UNCHANGED <<worldVars, pwmVars, dc, ping, dc_out, dc_obs, linkVars, ctlVars>>

\* listen_to_dc_motors: blocking_send(DcMotorEvent::UpdateChannel(channel, output))
ListenToDcUpdate(speeds) ==
    /\ frame.pc = "dc_update"
    /\ \E v \in (IF frame.idx = 1 THEN speeds ELSE {frame.speed}) :
          IF frame.idx < Len(DcMotors)
          THEN DcBlockingSend(UpdateChannelEvent(DcMotors[frame.idx], v),
                              "dc_update", frame.idx + 1, v)
          ELSE DcBlockingSend(UpdateChannelEvent(DcMotors[frame.idx], v),
                              "dc_complete", 1, 0)
    /\ UNCHANGED <<worldVars, pwmVars, dc, ping, dc_out, dc_obs, linkVars, ctlVars>>

\* listen_to_dc_motors: blocking_send(DcMotorEvent::BatchComplete)
ListenToDcComplete ==
    /\ frame.pc = "dc_complete"
    /\ DcBlockingSend(BatchCompleteEvent, "last", 1, 0)
    /\ UNCHANGED <<worldVars, pwmVars, dc, ping, dc_out, dc_obs, linkVars, ctlVars>>

\* shutdown (dc_motor.rs): `let _ = channels.0.send(DcMotorEvent::Shutdown)`.
\* Sender::send of tokio's mpsc is an async fn; the future it returns is
\* dropped without being polled, so nothing enters the channel.
DcShutdown ==
    /\ frame.pc = "last"
    /\ started = "dc"
    /\ frame' = [frame EXCEPT !.pc = "idle", !.exit_read = exit_flag]
    /\ UNCHANGED <<worldVars, pwmVars, dcVars, ctlVars>>

\* some system of the world arms or disarms the robot between two frames
SetRobotArmed ==
    /\ frame.pc = "idle"
    /\ robot_armed' = IF robot_armed = "Armed" THEN "Disarmed" ELSE "Armed"
    /\ UNCHANGED <<started, exit_flag, frame, pwmVars, dcVars, ctlVars>>

\* SIGINT / SIGTERM: the signal handler sets the flag check_handler reads
Signal ==
    /\ frame.pc = "idle"
    /\ ~exit_flag
    /\ exit_flag' = TRUE
    /\ UNCHANGED <<started, robot_armed, frame, pwmVars, dcVars, ctlVars>>

----------------------------------------------------------------------------
(* PidController (common/src/components/pid.rs)                            *)
(*                                                                         *)
(* f32 values are kept as thousandths (FixedPoint); Duration in ms.        *)

Abs(x) == IF x < 0 THEN -x ELSE x
\* f32::clamp(min, max), called with min <= max
Clamp(x, lo, hi) == IF x < lo THEN lo ELSE IF x > hi THEN hi ELSE x
\* a * b and a / b of two values in thousandths
Mul(a, b) == (a * b) \div FixedPoint
Div(a, b) == (a * FixedPoint) \div b

\* Option<f32>
None == <<>>
Some(x) == <<x>>

\* PidController::new()
PidNew == [last_error |-> None, integral |-> 0]

\* (a slip: the clamp of the integral is missing)
PidIntegrate_NoClamp(c, error, cfg, interval) == c.integral + Mul(error, interval)

\* self.integral += error * interval; self.integral = self.integral.clamp(..)
PidIntegrate(c, error, cfg, interval) ==
    Clamp(c.integral + Mul(error, interval), -cfg.max_integral, cfg.max_integral)

\* the low-pass of the error that the derivative is taken from
PidFilteredError(c, error, cfg) ==
    Mul(error, cfg.d_alpha) + Mul(c.last_error[1], FixedPoint - cfg.d_alpha)

\* `let derivative = if let Some(last_error) = self.last_error { .. } else { 0.0 }`
PidDerivative(c, error, cfg, interval) ==
    IF c.last_error # None
    THEN Div(PidFilteredError(c, error, cfg) - c.last_error[1], interval)
    ELSE 0

\* self.last_error after the update: Some(filtered_error) or Some(error) is
\* assigned inside the `if let`, then `self.last_error = Some(error)` after it
PidLastError(c, error, cfg) == Some(error)

\* (a slip: outside the zone the i term is dropped but the integral is kept)
PidIZone_KeepIntegral(integral, error, cfg) ==
    IF Abs(error) < cfg.i_zone
    THEN [i |-> Mul(cfg.ki, integral), integral |-> integral]
    ELSE [i |-> 0, integral |-> integral]

\* `let i = if error.abs() < config.i_zone { i } else { self.integral = 0.0; 0.0 }`
PidIZone(integral, error, cfg) ==
    IF Abs(error) < cfg.i_zone
    THEN [i |-> Mul(cfg.ki, integral), integral |-> integral]
    ELSE [i |-> 0, integral |-> 0]

\* PidController::update: the controller afterwards and the PidResult
PidUpdate(c, error, cfg, interval) ==
    LET integral == PidIntegrate(c, error, cfg, interval)
        derivative == PidDerivative(c, error, cfg, interval)
        p == Mul(cfg.kp, error)
        d == Mul(cfg.kd, derivative)
        z == PidIZone(integral, error, cfg)
    IN [ctrl |-> [last_error |-> PidLastError(c, error, cfg), integral |-> z.integral],
        res |-> [error |-> error, p |-> p, i |-> z.i, d |-> d,
                 correction |-> Clamp(p + z.i + d, -cfg.max_output, cfg.max_output)]]

\* the configurations, errors and frame time the controller is run with
PidConfig(i_zone, max_integral, d_alpha) ==
    [kp |-> 1000, ki |-> 1000, kd |-> 1000, d_alpha |-> d_alpha,
     i_zone |-> i_zone, max_integral |-> max_integral, max_output |-> 10000]
PidConfigs == {PidConfig(z, m, a) : z \in {500, 6000}, m \in {0, 15, 10000}, a \in {500, 1000}}
PidErrors == {-5000, -100, 100, 5000}
PidInterval == 100

PidIdle ==
    [ctrl |-> PidNew, cfg |-> PidConfig(500, 10000, 1000), prev |-> PidNew,
     res |-> PidUpdate(PidNew, 0, PidConfig(500, 10000, 1000), PidInterval).res,
     errors |-> <<>>, integrals |-> <<>>]

\* one call of update (prev, errors, integrals: history, the controller
\* before the call, the errors fed so far and the integral stored after each)
PidStep ==
    /\ Len(pid.errors) < MaxPidUpdates
    /\ \E error \in PidErrors :
          LET u == PidUpdate(pid.ctrl, error, pid.cfg, PidInterval)
          IN pid' = [pid EXCEPT !.ctrl = u.ctrl, !.res = u.res, !.prev = pid.ctrl,
                                !.errors = Append(@, error),
                                !.integrals = Append(@, u.ctrl.integral)]
    /\ UNCHANGED <<worldVars, frame, pwmVars, dcVars, thr, sched, servo, lib>>

\* PidController::reset
PidReset ==
    /\ pid.ctrl # PidNew
    /\ Len(pid.errors) < MaxPidUpdates
    /\ pid' = [pid EXCEPT !.ctrl = PidNew, !.prev = PidNew]
    /\ UNCHANGED <<worldVars, frame, pwmVars, dcVars, thr, sched, servo, lib>>

----------------------------------------------------------------------------
(* MotorData (motor_math/src/motor_preformance.rs)                         *)
(*                                                                         *)
(* force in mN, current in mA, pwm in us.                                  *)

Max(a, b) == IF a > b THEN a ELSE b

\* the value of a let binding: S holds that value and nothing else
The(S) == CHOOSE x \in S : TRUE

MotorRecord(f, c, us) == [force |-> f, current |-> c, pwm |-> us]

\* the thrusters of the vehicle and the way each one spins
Thrusters == 1 .. 4
Directions == [m \in Thrusters |-> IF m = 2 THEN "CounterClockwise" ELSE "Clockwise"]

\* the calibration table behind force_index: sorted by force, no force twice
MotorTable ==
    << MotorRecord(-2000, 4000, 1100), MotorRecord(-1000, 1000, 1300),
       MotorRecord(0, 0, 1500),
       MotorRecord(1000, 1000, 1700), MotorRecord(2000, 4000, 1900) >>

\* the supplier of an index: the key of a record, it.force or
\* it.current.copysign(it.force)
Supplier(by, it) ==
    IF by = "force" THEN it.force
    ELSE IF it.force < 0 THEN -it.current ELSE it.current

\* From<Vec<MotorRecord>>: sort_by the key (a stable sort), then dedup_by_key
SortDedup(value, by) ==
    [n \in 1 .. Cardinality({Supplier(by, value[i]) : i \in DOMAIN value}) |->
        The(UNION {{value[first] :
                        first \in {i \in DOMAIN value :
                                      /\ Supplier(by, value[i]) = key
                                      /\ \A j \in DOMAIN value :
                                            Supplier(by, value[j]) = key => i <= j}} :
                key \in {k \in {Supplier(by, value[i]) : i \in DOMAIN value} :
                            Cardinality({l \in {Supplier(by, value[i]) : i \in DOMAIN value} :
                                            l < k}) = n - 1}})]

\* binary_search_nearest_internal: the two records around val = num / den
BinarySearchNearest(data, by, num, den) ==
    The({<<data[idx_b], data[idx_b + 1]>> :
            idx_b \in {Min(Max(Cardinality({i \in 1 .. Len(data) :
                                               Supplier(by, data[i]) * den < num}),
                                1),
                            Len(data) - 1)}})

\* RecordIndex::new: min_step_size
MinStepSize(data, by) ==
    The({g \in {Supplier(by, data[i + 1]) - Supplier(by, data[i]) : i \in 1 .. (Len(data) - 1)} :
            \A i \in 1 .. (Len(data) - 1) :
                g <= Supplier(by, data[i + 1]) - Supplier(by, data[i])})

\* RecordIndex::new: FloatCompression { min, max, steps }, steps being
\* ceil((max - min) / min_step_size) + 1
IndexSteps(data, by) ==
    The(UNION {{[min |-> lo, max |-> hi,
                 steps |-> ((hi - lo) + MinStepSize(data, by) - 1)
                               \div MinStepSize(data, by) + 1]} :
                lo \in {Supplier(by, data[1])}, hi \in {Supplier(by, data[Len(data)])}})

\* FloatCompression::compress
Compress(fc, val) == ((val - fc.min) * (fc.steps - 1)) \div (fc.max - fc.min)

\* FloatCompression::decompress: the two ends of bucket idx, as numerators
\* over steps - 1
Decompress(fc, idx) ==
    << idx * (fc.max - fc.min) + fc.min * (fc.steps - 1),
       (idx + 1) * (fc.max - fc.min) + fc.min * (fc.steps - 1) >>

\* RecordIndex::new: lookup_table[step] = (low, mid, high)
LookupTable(data, by, fc) ==
    [step \in 0 .. (fc.steps - 1) |->
        The({[low |-> lo[1],
              mid |-> IF lo[2] = hi[1] THEN Some(lo[2]) ELSE None,
              high |-> hi[2]] :
                lo \in {BinarySearchNearest(data, by, Decompress(fc, step)[1], fc.steps - 1)},
                hi \in {BinarySearchNearest(data, by, Decompress(fc, step)[2], fc.steps - 1)}})]

\* RecordIndex::new
RecordIndex(data, by) ==
    The({[data |-> data, by |-> by, float_compression |-> fc,
          lookup_table |-> LookupTable(data, by, fc)] :
            fc \in {IndexSteps(data, by)}})

\* From<Vec<MotorRecord>> for MotorData
MotorData(value) ==
    [force_index |-> RecordIndex(SortDedup(value, "force"), "force"),
     current_index |-> RecordIndex(SortDedup(value, "current"), "current")]

\* MotorDataRes: the table of the robot
MotorDataRes == MotorData(MotorTable)

\* (a slip: the middle record of the bucket is never looked at)
LookupNearest_NoMid(index, val) ==
    The({<<e.low, e.high>> :
            e \in {index.lookup_table[Min(Max(Compress(index.float_compression, val), 0),
                                          index.float_compression.steps - 1)]}})

\* RecordIndex::lookup_nearest
LookupNearest(index, val) ==
    The({IF e.mid # None
         THEN IF Supplier(index.by, e.low) <= val /\ val <= Supplier(index.by, e.mid[1])
              THEN <<e.low, e.mid[1]>>
              ELSE <<e.mid[1], e.high>>
         ELSE <<e.low, e.high>> :
            e \in {index.lookup_table[Min(Max(Compress(index.float_compression, val), 0),
                                          index.float_compression.steps - 1)]}})

\* lerp(a, b, alpha) with alpha = num / den
Lerp(a, b, num, den) == ((den - num) * a + num * b) \div den

\* MotorData::interpolate with extrapolate = false:
\* alpha = (value - value_a) / (value_b - value_a), clamped to [0, 1];
\* interpolation is "Lerp", or the direction of LerpDirection(direction)
Interpolate(a, b, value, value_a, value_b, interpolation) ==
    The({[force |-> Lerp(a.force, b.force, num, den),
          current |-> Lerp(a.current, b.current, num, den),
          pwm |-> IF interpolation = "CounterClockwise"
                  THEN 3000 - Lerp(a.pwm, b.pwm, num, den)
                  ELSE Lerp(a.pwm, b.pwm, num, den)] :
            num \in {Clamp(value - value_a, 0, value_b - value_a)},
            den \in {value_b - value_a}})

\* MotorData::lookup_by_force and lookup_by_current (extrapolate = false):
\* index is force_index or current_index
LookupBy(index, value, interpolation) ==
    The({Interpolate(nearest[1], nearest[2], value,
                     Supplier(index.by, nearest[1]), Supplier(index.by, nearest[2]),
                     interpolation) :
            nearest \in {LookupNearest(index, value)}})

\* MotorData::binary_search_by_force and binary_search_by_current
BinarySearchBy(index, value, interpolation) ==
    The({Interpolate(nearest[1], nearest[2], value,
                     Supplier(index.by, nearest[1]), Supplier(index.by, nearest[2]),
                     interpolation) :
            nearest \in {BinarySearchNearest(index.data, index.by, value, 1)}})

\* motor_data.0.lookup_by_force(force, LerpDirection(direction), false)
LookupByForce(force, direction) == LookupBy(MotorDataRes.force_index, force, direction)

\* calibration files: the table of the robot, one with uneven steps and
\* several rows inside the dead band, and that one read in falling order
UnevenTable ==
    << MotorRecord(-2000, 3000, 1100), MotorRecord(-500, 400, 1300),
       MotorRecord(0, 0, 1480), MotorRecord(0, 0, 1500), MotorRecord(0, 0, 1520),
       MotorRecord(300, 200, 1600), MotorRecord(2000, 3500, 1900) >>
CalibrationTables ==
    {MotorTable, UnevenTable,
     [i \in DOMAIN UnevenTable |-> UnevenTable[Len(UnevenTable) + 1 - i]]}

\* the index of a MotorData a lookup by force or by current goes through
IndexOf(value, by) == RecordIndex(SortDedup(value, by), by)

\* the keys looked up: MaxKeySteps + 1 points spread over the key range, the
\* keys of the records and their neighbours in the range
KeyPoints(index) ==
    UNION {{fc.min + ((fc.max - fc.min) * step) \div MaxKeySteps : step \in 0 .. MaxKeySteps}
             \cup {k \in UNION {{Supplier(index.by, index.data[i]) + d : d \in {-1, 0, 1}} :
                                   i \in DOMAIN index.data} :
                      fc.min <= k /\ k <= fc.max} :
           fc \in {index.float_compression}}

\* lookup_by_force / lookup_by_current with Interpolation::Lerp (nearest:
\* history, the pair of records lookup_nearest returned)
LookupByKey ==
    /\ lib.pc = "keyed"
    /\ lib.lookup = None
    /\ \E index \in {IndexOf(lib.value, lib.by)} :
          lib' = [lib EXCEPT !.lookup = Some(LookupBy(index, lib.key, "Lerp")),
                             !.nearest = Some(LookupNearest(index, lib.key))]
    /\ UNCHANGED <<worldVars, frame, pwmVars, dcVars, pid, thr, sched, servo>>

\* binary_search_by_force / binary_search_by_current with Interpolation::Lerp
\* (searched: history, the pair of records binary_search_nearest returned)
BinarySearchByKey ==
    /\ lib.pc = "keyed"
    /\ lib.binary_search = None
    /\ \E index \in {IndexOf(lib.value, lib.by)} :
          lib' = [lib EXCEPT
                     !.binary_search = Some(BinarySearchBy(index, lib.key, "Lerp")),
                     !.searched = Some(BinarySearchNearest(index.data, index.by, lib.key, 1))]
    /\ UNCHANGED <<worldVars, frame, pwmVars, dcVars, pid, thr, sched, servo>>

----------------------------------------------------------------------------
(* The current clamp (motor_math/src/solve/reverse.rs)                     *)
(*                                                                         *)
(* The force ratio is kept in ten-thousandths (RatioOne).                  *)

Sgn(x) == IF x < 0 THEN -1 ELSE 1
\* force * ratio
MulRatio(x, r) == Sgn(x) * ((Abs(x) * r) \div RatioOne)

RECURSIVE SumOver(_, _)
SumOver(f, S) ==
    IF S = {} THEN 0
    ELSE LET x == CHOOSE y \in S : TRUE IN f[x] + SumOver(f, S \ {x})

\* coerce_zero
CoerceZero(value, epsilon) == IF Abs(value) < epsilon THEN 0 ELSE value

\* binary_search_force_ratio, the closure mapped over motor_cmds: the current
\* motor m draws at ratio mid, the force it produces and the force asked of it
SearchProbe(motor_cmds, m, mid, epsilon) ==
    The(UNION {{[current |-> CoerceZero(Abs(data.current), epsilon),
                 force |-> CoerceZero(Abs(data.force), epsilon),
                 expected |-> Abs(adjusted_force)] :
                    data \in {LookupByForce(adjusted_force, Directions[m])}} :
            adjusted_force \in {MulRatio(CoerceZero(motor_cmds[m].force, epsilon), mid)}})

\* binary_search_force_ratio, the fold: the summed current and the forces of
\* the first motor with the largest |expected - force|
FoldWorst(probe, delta) ==
    The({[mid_current |-> SumOver([m \in DOMAIN probe |-> probe[m].current], DOMAIN probe),
          mid_force |-> IF delta[worst] > 0 THEN probe[worst].force ELSE 0,
          expected_force |-> IF delta[worst] > 0 THEN probe[worst].expected ELSE 0,
          delta_force |-> delta[worst]] :
            worst \in {m \in DOMAIN probe :
                          /\ \A n \in DOMAIN probe : delta[n] <= delta[m]
                          /\ \A n \in DOMAIN probe : delta[n] = delta[m] => m <= n}})

SearchFold(motor_cmds, mid, epsilon) ==
    The(UNION {{FoldWorst(probe, delta) :
                    delta \in {<<Abs(probe[1].expected - probe[1].force),
                                 Abs(probe[2].expected - probe[2].force),
                                 Abs(probe[3].expected - probe[3].force),
                                 Abs(probe[4].expected - probe[4].force)>>}} :
            probe \in {<<SearchProbe(motor_cmds, 1, mid, epsilon),
                         SearchProbe(motor_cmds, 2, mid, epsilon),
                         SearchProbe(motor_cmds, 3, mid, epsilon),
                         SearchProbe(motor_cmds, 4, mid, epsilon)>>}})

\* binary_search_force_ratio before its loop
SearchStart(amperage_cap) ==
    [lower_bound |-> 0, lower_current |-> 0,
     upper_infinite |-> TRUE, upper_bound |-> 0, upper_current |-> 0,
     mid |-> RatioOne, max_iters |-> 15, learn_cap |-> FALSE,
     amperage_cap |-> amperage_cap, passes |-> 0]

\* binary_search_force_ratio, "Updates upper and lower bound based on
\* observation" and "Determines next test point based on the new bounds"
SearchNarrow(st, mid_current) ==
    The({IF b.upper_infinite
         THEN [b EXCEPT !.mid = (b.mid * b.amperage_cap) \div mid_current]
         ELSE [b EXCEPT !.mid = (b.upper_bound * (b.amperage_cap - b.lower_current)
                                  + b.lower_bound * (b.upper_current - b.amperage_cap))
                                 \div (b.upper_current - b.lower_current)] :
            b \in {IF mid_current >= st.amperage_cap
                   THEN [st EXCEPT !.upper_infinite = FALSE, !.upper_bound = st.mid,
                                   !.upper_current = mid_current]
                   ELSE [st EXCEPT !.lower_bound = st.mid, !.lower_current = mid_current]}})

\* binary_search_force_ratio, "The force produced by this set of motors
\* saturated": the bounds are reset and mid is scaled back
SearchSaturated(st, f) ==
    [st EXCEPT !.lower_bound = 0, !.lower_current = 0,
               !.upper_infinite = FALSE, !.upper_bound = st.mid,
               !.upper_current = f.mid_current,
               !.learn_cap = TRUE,
               !.mid = (st.mid * f.mid_force) \div f.expected_force]

\* binary_search_force_ratio, "else if learn_cap"
SearchLearnCap(st, f) ==
    IF st.learn_cap
    THEN [st EXCEPT !.amperage_cap = Min(@, f.mid_current), !.learn_cap = FALSE]
    ELSE st

\* binary_search_force_ratio, "Handles normal case" to the end of the loop
\* body: the search returns (done) or goes round again
SearchConverge(c, f, epsilon) ==
    IF Abs(f.mid_current - c.amperage_cap) < epsilon
    THEN [done |-> TRUE, ratio |-> c.mid, st |-> c]
    ELSE The({[done |-> n.max_iters = 0, ratio |-> n.mid, st |-> n] :
                 n \in {[SearchNarrow(c, f.mid_current) EXCEPT !.max_iters = @ - 1]}})

\* binary_search_force_ratio, one pass through the loop
SearchPass(motor_cmds, st, epsilon) ==
    The(UNION {{IF f.mid_current = 0 THEN [done |-> TRUE, ratio |-> 0, st |-> p]
                ELSE IF f.delta_force > epsilon
                THEN [done |-> FALSE, ratio |-> 0, st |-> SearchSaturated(p, f)]
                ELSE SearchConverge(SearchLearnCap(p, f), f, epsilon) :
                    f \in {SearchFold(motor_cmds, st.mid, epsilon)}} :
            p \in {[st EXCEPT !.passes = @ + 1]}})

\* binary_search_force_ratio, the loop: pass after pass until it returns
RECURSIVE SearchLoop(_, _, _)
SearchLoop(motor_cmds, st, epsilon) ==
    IF st.passes >= MaxSearchPasses
    THEN [ratio |-> st.mid, passes |-> st.passes]
    ELSE The({IF n.done THEN [ratio |-> n.ratio, passes |-> n.st.passes]
              ELSE SearchLoop(motor_cmds, n.st, epsilon) :
                 n \in {SearchPass(motor_cmds, st, epsilon)}})

\* binary_search_force_ratio
BinarySearchForceRatio(motor_cmds, amperage_cap, epsilon) ==
    SearchLoop(motor_cmds, SearchStart(amperage_cap), epsilon).ratio

\* command sets for the search on its own, as axis_maximums passes them from
\* forces_to_cmds_extrapolated: the force of a command can lie outside the
\* table (the search reads nothing but the force of a command)
SearchCommands ==
    {<<[force |-> big], [force |-> other], [force |-> small], [force |-> small]>> :
        big \in {1000, 2000, 5000, -7500}, other \in {-50, 0, 50}, small \in {0, 50}}
SearchCaps == {500, 1015, 2000, 3000, 20000}

\* binary_search_force_ratio on one command set: the next pass through its
\* loop
SearchForceRatio ==
    /\ lib.pc = "searching"
    /\ lib.st.passes < MaxSearchPasses
    /\ \E n \in {SearchPass(lib.motor_cmds, lib.st, ClampEpsilon)} :
          lib' = [lib EXCEPT !.pc = IF n.done THEN "returned" ELSE "searching",
                             !.st = n.st,
                             !.ratio = n.ratio]
    /\ UNCHANGED <<worldVars, frame, pwmVars, dcVars, pid, thr, sched, servo>>

\* the sum clamp_amperage takes of the currents
AmperageTotal(motor_cmds) ==
    SumOver([m \in DOMAIN motor_cmds |-> motor_cmds[m].current], DOMAIN motor_cmds)

\* clamp_amperage
ScaleForces(motor_cmds, force_ratio) ==
    <<LookupByForce(MulRatio(motor_cmds[1].force, force_ratio), Directions[1]),
      LookupByForce(MulRatio(motor_cmds[2].force, force_ratio), Directions[2]),
      LookupByForce(MulRatio(motor_cmds[3].force, force_ratio), Directions[3]),
      LookupByForce(MulRatio(motor_cmds[4].force, force_ratio), Directions[4])>>

ClampAmperage(motor_cmds, amperage_cap, epsilon) ==
    IF AmperageTotal(motor_cmds) <= amperage_cap
    THEN motor_cmds
    ELSE The({ScaleForces(motor_cmds, force_ratio) :
                 force_ratio \in {BinarySearchForceRatio(motor_cmds, amperage_cap, epsilon)}})

----------------------------------------------------------------------------
(* accumulate_motor_forces (robot/src/plugins/actuators/thruster.rs)       *)

\* JerkLimit(config.jerk_limit), in mN per second
JerkLimit == 2000
\* time.delta_secs(), in ms
DeltaSecs == 100
\* MovementCurrentCap(config.motor_amperage_budget), in mA
CurrentCaps == {500, 2000}
\* the forces the ThrustContributions of a tick add up to, per thruster
ThrustForces ==
    [m \in Thrusters |->
        IF m = 1 THEN {0, 1000, 2000}
        ELSE IF m = 2 THEN {-18, 0, 1000}
        ELSE {0, 18}]

\* all_forces looked up in the motor data
ForcesToRecords(all_forces) ==
    <<LookupByForce(all_forces[1], Directions[1]), LookupByForce(all_forces[2], Directions[2]),
      LookupByForce(all_forces[3], Directions[3]), LookupByForce(all_forces[4], Directions[4])>>

\* "Implement slew rate limiting", the closure mapped over motor_cmds
SlewRecord(record, last_movement, m) ==
    IF m \in DOMAIN last_movement
    THEN The({IF Abs(record.force - last_movement[m].force) > jerk_limit
              THEN LookupByForce(Clamp(record.force - last_movement[m].force,
                                       -jerk_limit, jerk_limit)
                                    + last_movement[m].force,
                                 Directions[m])
              ELSE record :
                 jerk_limit \in {(JerkLimit * DeltaSecs) \div 1000}})
    ELSE record

\* accumulate_motor_forces, the slew limiting and the second clamp
SlewAndClamp(looked_up, clamped, last_movement, current_cap) ==
    The({[looked_up |-> looked_up, clamped |-> clamped, slewed |-> slewed,
          motor_cmds |-> ClampAmperage(slewed, current_cap, ClampEpsilon)] :
            slewed \in {<<SlewRecord(clamped[1], last_movement, 1),
                          SlewRecord(clamped[2], last_movement, 2),
                          SlewRecord(clamped[3], last_movement, 3),
                          SlewRecord(clamped[4], last_movement, 4)>>}})

\* accumulate_motor_forces from all_forces to the motor_cmds it stores
MotorForces(all_forces, last_movement, current_cap) ==
    The(UNION {{SlewAndClamp(looked_up, clamped, last_movement, current_cap) :
                    clamped \in {ClampAmperage(looked_up, current_cap, ClampEpsilon)}} :
            looked_up \in {ForcesToRecords(all_forces)}})

\* before the first run: the Local is an empty map
ThrustIdle ==
    [current_cap |-> 2000, last_movement |-> <<>>, before |-> <<>>,
     run |-> MotorForces([m \in Thrusters |-> 0], <<>>, 2000),
     force_ratio |-> RatioOne, ticks |-> 0]

\* accumulate_motor_forces with the ThrustContributions adding up to
\* all_forces (before, run, force_ratio: history, the Local before the run,
\* the commands after each stage and the ratio of the first clamp)
MotorForcesRun(all_forces) ==
    \E run \in {MotorForces(all_forces, thr.last_movement, thr.current_cap)} :
        thr' = [thr EXCEPT !.run = run,
                           !.force_ratio =
                               IF AmperageTotal(run.looked_up) <= thr.current_cap
                               THEN RatioOne
                               ELSE BinarySearchForceRatio(run.looked_up,
                                        thr.current_cap, ClampEpsilon),
                           !.before = thr.last_movement,
                           !.last_movement = run.motor_cmds,
                           !.ticks = @ + 1]

\* accumulate_motor_forces, whatever the ThrustContributions of the tick
AccumulateMotorForces ==
    /\ thr.ticks < MaxThrustTicks
    /\ \E all_forces \in [Thrusters -> UNION Range(ThrustForces)] :
          /\ \A m \in Thrusters : all_forces[m] \in ThrustForces[m]
          /\ MotorForcesRun(all_forces)
    /\ UNCHANGED <<worldVars, frame, pwmVars, dcVars, pid, sched, servo, lib>>

----------------------------------------------------------------------------
(* The Update schedule (thruster.rs, stabilize.rs)                         *)
(*                                                                         *)
(* ThrusterPlugin orders accumulate_motor_forces after accumulate_movements *)
(* and StabilizePlugin adds stabalize_system with no ordering.  Every       *)
(* insert and remove goes through Commands: it waits in the buffer of its   *)
(* system until a sync point applies the buffers of the systems that have   *)
(* run.  There is a sync point between two ordered systems when the first   *)
(* has Commands, and one at the end of the schedule.  The environment       *)
(* (Armed, sensors, targets) changes between ticks.  Orientation is the     *)
(* identity; a movement is [force, torque] along z.                         *)

Systems == {"stabalize_system", "accumulate_movements", "accumulate_motor_forces"}
PidAxes == {"Depth", "Yaw"}

\* config.pid_configs: the PidConfig of every axis
StabilizeConfig == [PidConfig(6000, 10000, 1000) EXCEPT !.kd = 0]

\* what the sensors and targets of a tick can be
Environments ==
    {[orientation |-> o, orientation_target |-> ot, depth |-> d, depth_target |-> dt,
      depth_error |-> 1000, yaw_error |-> 500, disable_movement_api |-> manual] :
        <<o, ot, d, dt>> \in {<<TRUE, TRUE, TRUE, TRUE>>, <<FALSE, TRUE, TRUE, TRUE>>,
                              <<TRUE, FALSE, TRUE, TRUE>>, <<TRUE, TRUE, FALSE, TRUE>>,
                              <<TRUE, TRUE, TRUE, FALSE>>},
        manual \in BOOLEAN}

\* PidController::update of common::types::utils, as the specification
\* describes the controller
UtilsPidUpdate(c, error, cfg, interval) == PidUpdate(c, error, cfg, interval)

\* PidController::reset_i of common::types::utils: the integrator is zeroed
UtilsPidResetI(c) == [c EXCEPT !.integral = 0]

\* (a slip: the errors are kept while the robot is not Armed)
AxisError_IgnoreArmed(axis, env, armed) ==
    IF axis = "Depth"
    THEN IF env.depth_target /\ env.depth THEN Some(env.depth_error) ELSE None
    ELSE IF env.orientation_target /\ env.orientation THEN Some(env.yaw_error) ELSE None

\* stabalize_system: depth_error and the twist about the axis, None when a
\* reading or a target is absent or the robot is not Armed
AxisError(axis, env, armed) ==
    IF armed # "Armed" THEN None
    ELSE IF axis = "Depth"
    THEN IF env.depth_target /\ env.depth THEN Some(env.depth_error) ELSE None
    ELSE IF env.orientation_target /\ env.orientation THEN Some(env.yaw_error) ELSE None

\* stabalize_system: needs_remove
NeedsRemove(axis, env, armed) ==
    \/ ~env.orientation
    \/ AxisError(axis, env, armed) = None

\* PidAxis::get_unit_local_movement * res.correction
LocalMovement(axis, correction) ==
    IF axis = "Depth"
    THEN [force |-> -correction, torque |-> 0]
    ELSE [force |-> 0, torque |-> correction]

\* stabalize_system, the body of the loop: the controller after it and the
\* command it queues
StabilizeAxis(axis, state, env, armed, tick) ==
    IF NeedsRemove(axis, env, armed)
    THEN [state |-> UtilsPidResetI(state), cmd |-> [op |-> "remove"]]
    ELSE The({[state |-> u.ctrl,
               cmd |-> [op |-> "insert",
                        contribution |-> [movement |-> LocalMovement(axis, u.res.correction),
                                          tick |-> tick],
                        res |-> u.res]] :
                 u \in {UtilsPidUpdate(state, AxisError(axis, env, armed)[1],
                                       StabilizeConfig, PidInterval)}})

\* (a slip: the query without its Without<DisableMovementApi> filter)
MovementApiDisabled_Never(env) == FALSE

\* the robot query of accumulate_movements and of accumulate_motor_forces
\* finds no robot: it carries DisableMovementApi
MovementApiDisabled(env) == env.disable_movement_api

\* motor_config.matrix, a column per thruster: thrusters 1 and 2 heave,
\* 3 and 4 yaw against each other
AllocationMatrix ==
    <<[force |-> 1, torque |-> 0], [force |-> 1, torque |-> 0],
      [force |-> 0, torque |-> 1], [force |-> 0, torque |-> -1]>>

\* forward_solve of solve::forward, as the specification describes it: the
\* wrench M * f
ForwardSolve(forces) ==
    [force |-> SumOver([m \in Thrusters |-> AllocationMatrix[m].force * forces[m]], Thrusters),
     torque |-> SumOver([m \in Thrusters |-> AllocationMatrix[m].torque * forces[m]], Thrusters)]

\* accumulate_motor_forces: TargetMovement, ActualMovement and what every
\* thruster gets (TargetForce, CurrentDraw, MotorSignal::Raw)
MotorReport(all_forces, motor_cmds) ==
    [target_movement |-> ForwardSolve(all_forces),
     actual_movement |-> ForwardSolve([m \in Thrusters |-> motor_cmds[m].force]),
     target_force |-> all_forces,
     current_draw |-> [m \in Thrusters |-> motor_cmds[m].current],
     signal |-> [m \in Thrusters |-> [kind |-> "Raw", value |-> motor_cmds[m].pwm]]]

\* (a slip: the transpose of the matrix in place of its pseudo-inverse)
PseudoInverse_Transpose ==
    <<[force |-> 2, torque |-> 0], [force |-> 2, torque |-> 0],
      [force |-> 0, torque |-> 2], [force |-> 0, torque |-> -2]>>

\* motor_config.pseudo_inverse: thrusters 1 and 2 heave, 3 and 4 yaw
PseudoInverse ==
    <<[force |-> 1, torque |-> 0], [force |-> 1, torque |-> 0],
      [force |-> 0, torque |-> 1], [force |-> 0, torque |-> -1]>>

\* reverse_solve (the entries of pseudo_inverse are halves)
ReverseSolve(movement) ==
    [m \in Thrusters |->
        (PseudoInverse[m].force * movement.force + PseudoInverse[m].torque * movement.torque)
            \div 2]

\* accumulate_movements: the sum of the MovementContributions
TotalMovement(contribution) ==
    [force |-> SumOver([a \in PidAxes |->
                           IF contribution[a] = None THEN 0 ELSE contribution[a][1].movement.force],
                       PidAxes),
     torque |-> SumOver([a \in PidAxes |->
                           IF contribution[a] = None THEN 0 ELSE contribution[a][1].movement.torque],
                        PidAxes)]

\* accumulate_movements: the forces of its ThrustContribution
ThrustOf(contribution) ==
    The({<<r[1].force, r[2].force, r[3].force, r[4].force>> :
            r \in {ForcesToRecords(ReverseSolve(TotalMovement(contribution)))}})

\* the wrenches of the round trip: small ones as in the tests of solve.rs,
\* and ones that ask a thruster for more than the table holds
Wrenches ==
    {[force |-> f, torque |-> t] :
        f \in {-6000, -3000, -600, -1, 0, 1, 300, 501, 3000, 4000, 6000},
        t \in {-5000, -2000, -400, 0, 1, 200, 999, 2000, 4000, 4100}}

\* solve_roundtrip_*: reverse_solve, forces_to_cmds, then forward_solve of
\* the forces of the commands
SolveRoundtrip ==
    /\ lib.pc = "wrench"
    /\ \E forces \in {ReverseSolve(lib.movement)} :
          \E motor_cmds \in {ForcesToRecords(forces)} :
             lib' = [lib EXCEPT
                        !.pc = "solved",
                        !.forces = forces,
                        !.motor_cmds = motor_cmds,
                        !.actual_movement =
                            ForwardSolve([m \in Thrusters |-> motor_cmds[m].force])]
    /\ UNCHANGED <<worldVars, frame, pwmVars, dcVars, pid, thr, sched, servo>>

\* the state after the Startup schedule: setup_stabalize has spawned every
\* axis with a zero MovementContribution and a fresh PidState, create_motors
\* the robot and the thrusters with zero movements, forces and signals
SchedIdle ==
    [tick |-> 0, done |-> Systems, unapplied |-> {},
     env |-> CHOOSE e \in Environments : e.orientation /\ e.orientation_target /\ e.depth /\ e.depth_target,
     state |-> [a \in PidAxes |-> PidNew],
     contribution |-> [a \in PidAxes |-> Some([movement |-> LocalMovement(a, 0), tick |-> 0])],
     result |-> [a \in PidAxes |-> None],
     thrust |-> None,
     actual_force |-> [m \in Thrusters |-> 0],
     report |-> [target_movement |-> [force |-> 0, torque |-> 0],
                 actual_movement |-> [force |-> 0, torque |-> 0],
                 target_force |-> [m \in Thrusters |-> 0],
                 current_draw |-> [m \in Thrusters |-> 0],
                 signal |-> [m \in Thrusters |-> [kind |-> "Percent", value |-> 0]]],
     report_cmd |-> None,
     stabilize_cmds |-> [a \in PidAxes |-> [op |-> "none"]],
     thrust_cmd |-> None,
     force_cmd |-> None,
     summed |-> [a \in PidAxes |-> None],
     dispatched |-> None]

\* the next tick of the main loop starts
BeginTick ==
    /\ sched.done = Systems
    /\ sched.unapplied = {}
    /\ sched.tick < MaxSchedTicks
    /\ \E armed \in {"Armed", "Disarmed"}, env \in Environments :
          /\ robot_armed' = armed
          /\ sched' = [sched EXCEPT !.tick = @ + 1, !.done = {}, !.env = env]
    /\ UNCHANGED <<started, exit_flag, frame, pwmVars, dcVars, pid, thr, servo, lib>>

\* stabalize_system
StabalizeSystem ==
    /\ "stabalize_system" \notin sched.done
    /\ \E run \in {[a \in PidAxes |->
                      StabilizeAxis(a, sched.state[a], sched.env, robot_armed, sched.tick)]} :
          sched' = [sched EXCEPT !.done = @ \cup {"stabalize_system"},
                                 !.unapplied = @ \cup {"stabalize_system"},
                                 !.state = [a \in PidAxes |-> run[a].state],
                                 !.stabilize_cmds = [a \in PidAxes |-> run[a].cmd]]
    /\ UNCHANGED <<worldVars, frame, pwmVars, dcVars, pid, thr, servo, lib>>

\* accumulate_movements (summed: history, the tick of each contribution read)
AccumulateMovements ==
    /\ "accumulate_movements" \notin sched.done
    /\ IF MovementApiDisabled(sched.env)
       THEN sched' = [sched EXCEPT !.done = @ \cup {"accumulate_movements"},
                                   !.unapplied = @ \cup {"accumulate_movements"}]
       ELSE sched' = [sched EXCEPT !.done = @ \cup {"accumulate_movements"},
                                   !.unapplied = @ \cup {"accumulate_movements"},
                                   !.thrust_cmd = Some([forces |-> ThrustOf(sched.contribution),
                                                        tick |-> sched.tick]),
                                   !.summed = [a \in PidAxes |->
                                                  IF sched.contribution[a] = None THEN None
                                                  ELSE Some(sched.contribution[a][1].tick)]]
    /\ UNCHANGED <<worldVars, frame, pwmVars, dcVars, pid, thr, servo, lib>>

\* accumulate_motor_forces, after accumulate_movements and the sync point
\* that follows it (dispatched: history, the tick of the ThrustContribution read)
ScheduledMotorForces ==
    /\ "accumulate_motor_forces" \notin sched.done
    /\ "accumulate_movements" \in sched.done
    /\ "accumulate_movements" \notin sched.unapplied
    /\ IF MovementApiDisabled(sched.env)
       THEN /\ thr' = thr
            /\ sched' = [sched EXCEPT !.done = @ \cup {"accumulate_motor_forces"},
                                      !.unapplied = @ \cup {"accumulate_motor_forces"}]
       ELSE \E all_forces \in {IF sched.thrust = None THEN [m \in Thrusters |-> 0]
                                ELSE sched.thrust[1].forces} :
               /\ MotorForcesRun(all_forces)
               /\ sched' = [sched EXCEPT
                     !.done = @ \cup {"accumulate_motor_forces"},
                     !.unapplied = @ \cup {"accumulate_motor_forces"},
                     !.force_cmd = Some([m \in Thrusters |-> thr'.last_movement[m].force]),
                     !.report_cmd = Some(MotorReport(all_forces, thr'.last_movement)),
                     !.dispatched = IF sched.thrust = None THEN None
                                    ELSE Some(sched.thrust[1].tick)]
    /\ UNCHANGED <<worldVars, frame, pwmVars, dcVars, pid, servo, lib>>

\* a sync point: the buffers of the systems that have run are applied
ApplyDeferred ==
    /\ sched.unapplied # {}
    /\ sched' = [sched EXCEPT
          !.unapplied = {},
          !.contribution = [a \in PidAxes |->
              IF sched.stabilize_cmds[a].op = "insert" THEN Some(sched.stabilize_cmds[a].contribution)
              ELSE IF sched.stabilize_cmds[a].op = "remove" THEN None
              ELSE @[a]],
          !.result = [a \in PidAxes |->
              IF sched.stabilize_cmds[a].op = "insert" THEN Some(sched.stabilize_cmds[a].res)
              ELSE IF sched.stabilize_cmds[a].op = "remove" THEN None
              ELSE @[a]],
          !.stabilize_cmds = [a \in PidAxes |-> [op |-> "none"]],
          !.thrust = IF sched.thrust_cmd = None THEN @ ELSE sched.thrust_cmd,
          !.thrust_cmd = None,
          !.actual_force = IF sched.force_cmd = None THEN @ ELSE sched.force_cmd[1],
          !.force_cmd = None,
          !.report = IF sched.report_cmd = None THEN @ ELSE sched.report_cmd[1],
          !.report_cmd = None]
    /\ UNCHANGED <<worldVars, frame, pwmVars, dcVars, pid, thr, servo, lib>>

----------------------------------------------------------------------------
(* Raw signal ranges (hardware/motor_id_map.rs, common components/motor.rs, *)
(* create_servos of servo.rs)                                               *)
(*                                                                         *)
(* A percentage is a whole number of thousandths; `as i32` drops the        *)
(* fraction of the product.                                                 *)

\* f32 as i32 of a / b, b > 0: towards zero
TruncDiv(a, b) == IF a >= 0 THEN a \div b ELSE -((-a) \div b)

\* PwmChannel::default_signal_range and DcChannel::default_signal_range
DefaultSignalRange(channel) ==
    IF channel = "PwmChannel"
    THEN [min |-> 1100, center |-> 1500, max |-> 1900]
    ELSE [min |-> -32768, center |-> 0, max |-> 32767]

\* MotorRawSignalRange::raw_from_percent
RawFromPercent(range, pct) ==
    IF pct > 0 THEN TruncDiv(pct * (range.max - range.center), FixedPoint) + range.center
    ELSE IF pct < 0 THEN TruncDiv((-pct) * (range.min - range.center), FixedPoint) + range.center
    ELSE range.center

\* the constraints { min, max } a servo of the configuration can have
ServoConstraintValues == {-1000, -500, -250, 0, 250, 500, 1000, 1500}
ServoConstraints ==
    {None} \cup {Some([min |-> lo, max |-> hi]) :
                    lo \in ServoConstraintValues, hi \in ServoConstraintValues}

\* create_servos: signal_range
SignalRange(channel, constraints) ==
    IF constraints # None
    THEN [min |-> Max(DefaultSignalRange(channel).min,
                      RawFromPercent(DefaultSignalRange(channel), constraints[1].min)),
          center |-> DefaultSignalRange(channel).center,
          max |-> Min(DefaultSignalRange(channel).max,
                      RawFromPercent(DefaultSignalRange(channel), constraints[1].max))]
    ELSE DefaultSignalRange(channel)

\* no call of a library function is being looked at
LibIdle == [pc |-> "idle"]

\* create_servos spawns the servo of the configuration
CreateServos ==
    /\ lib.pc = "servo_config"
    /\ lib' = [lib EXCEPT !.pc = "servo_spawned",
                          !.signal_range = SignalRange(lib.channel, lib.constraints)]
    /\ UNCHANGED <<worldVars, frame, pwmVars, dcVars, pid, thr, sched, servo>>

----------------------------------------------------------------------------
(* handle_servo_input (robot/src/plugins/actuators/servo.rs)               *)
(*                                                                         *)
(* One servo.  A position is a whole number of thousandths; the inserts of  *)
(* MotorTargets and MotorSignal are applied before the next tick reads      *)
(* them.                                                                    *)

\* the sums the MotorContributions of a tick can come to for the servo
ServoInputs == {-8000, 500, 8000}
\* MotorSlewRate(MotorSignal::Percent(..)) per second, where the servo has one
ServoSlewRates == {None, Some(1000)}

\* last_positions.0.get(id).copied().unwrap_or(0.0)
PositionOr0(target) == IF target = None THEN 0 ELSE target[1]

\* the closure new_positions is extended with: the entry of a servo that has
\* an input
ServoPosition(mode, input, last, full_reset, should_reset) ==
    IF mode = "ZerothOrder" THEN input
    ELSE Clamp((IF ~full_reset /\ ~should_reset THEN PositionOr0(last) ELSE 0)
                  + Mul(input, DeltaSecs),
               -1000, 1000)

\* new_positions: last_positions, then the ResetServo events, then the inputs
NewPosition(mode, input, last, full_reset, should_reset) ==
    IF input # None THEN Some(ServoPosition(mode, input[1], last, full_reset, should_reset))
    ELSE IF should_reset THEN Some(0)
    ELSE last

\* the signal without the limit of servo.rs:196-203
ServoSignal_NoSlew(position, last_signal, slew_rate) == position

\* the MotorSignal::Percent inserted for a position
ServoSignal(position, last_signal, slew_rate) ==
    IF slew_rate = None THEN position
    ELSE IF Abs(position - last_signal) > Mul(slew_rate[1], DeltaSecs)
    THEN last_signal + Clamp(position - last_signal,
                             -Mul(slew_rate[1], DeltaSecs), Mul(slew_rate[1], DeltaSecs))
    ELSE position

\* create_servos: MotorTargets::default() and MotorSignal::Percent(0.0)
ServoIdle ==
    [mode |-> "FirstOrder", slew_rate |-> None, target |-> None, signal |-> 0,
     last |-> None, last_signal |-> 0, input |-> None, full_reset |-> FALSE, should_reset |-> FALSE,
     positions |-> <<>>]

\* handle_servo_input (last, last_signal, input, full_reset, should_reset,
\* positions: history, what the latest tick read and the position after
\* every tick)
HandleServoInput ==
    /\ Len(servo.positions) < MaxServoTicks
    /\ \E input \in {None} \cup {Some(i) : i \in ServoInputs},
          full_reset \in BOOLEAN, should_reset \in BOOLEAN :
          \E new \in {NewPosition(servo.mode, input, servo.target, full_reset, should_reset)} :
             servo' = [servo EXCEPT
                 !.target = new,
                 !.signal = IF new = None THEN @
                            ELSE ServoSignal(new[1], servo.signal, servo.slew_rate),
                 !.last = servo.target,
                 !.last_signal = servo.signal,
                 !.input = input,
                 !.full_reset = full_reset,
                 !.should_reset = should_reset,
                 !.positions = Append(@, PositionOr0(new))]
    /\ UNCHANGED <<worldVars, frame, pwmVars, dcVars, pid, thr, sched, lib>>

----------------------------------------------------------------------------
\* the state after the Startup schedule, whichever bridge was started
Idle ==
    /\ robot_armed = "Disarmed"
    /\ exit_flag = FALSE
    /\ frame = FrameInit
    /\ pwm_rx = <<>>
    /\ pwm = PwmInit
    /\ chip = [pwms |-> STOP_PWMS, output_enabled |-> FALSE]
    /\ pwm_obs = [armed |-> "Disarmed", batch_seen |-> FALSE, inactivity |-> FALSE,
                  src |-> "stop", after_shutdown |-> 0]
    /\ dc_rx = <<>>
    /\ dc = DcInit
    /\ ping = [pc |-> "start", tx_id |-> FirstPingId, un_acked_pings |-> 0, sent_id |-> 0]
    /\ dc_out = [log |-> <<>>, armed |-> "Disarmed", speeds |-> DC_STOP_SIGNALS]
    /\ dc_obs = [ticks |-> 0, inactivity |-> FALSE, src |-> "stop", faults |-> 0]
    /\ rx_in = [ping |-> Subscriber, telem |-> Subscriber]
    /\ telem = [pc |-> "recv", state |-> MotorState(0, 0),
                current_draw |-> [c \in DcChannels |-> 0],
                lagged |-> FALSE]

\* the control systems of the tick loop at rest
CtlIdle ==
    /\ lib = LibIdle
    /\ pid = PidIdle
    /\ thr = ThrustIdle
    /\ sched = SchedIdle
    /\ servo = ServoIdle

\* the controller sends nothing but the version reply
Init ==
    /\ started \in {"pwm", "dc"}
    /\ controller = [streams |-> FALSE, pinged |-> FALSE]
    /\ Idle
    /\ CtlIdle

PwmThread == PwmDrain \/ PwmDrained \/ PwmUpdate \/ PwmSleep \/ PwmTime
DcTasks ==
    \/ DcStartupSend \/ DcVersionReply \/ DcVersionOther \/ DcNotify
    \/ DcTick \/ DcDrain \/ DcDrained \/ DcUpdate \/ DcTime
    \/ PingWait \/ PingSend \/ PingDone

Next ==
    \/ BeginFrame(MaxBacklog)
    \/ ListenToPwmsArm
    \/ ListenToPwmsBatch(Batches)
    \/ PwmShutdown
    \/ ListenToDcArm
    \/ ListenToDcUpdate(DcSpeeds)
    \/ ListenToDcComplete
    \/ DcShutdown
    \/ SetRobotArmed
    \/ Signal
    \/ PwmThread
    \/ DcTasks

Spec == Init /\ [][Next]_vars

\* The tick loop runs frames without waiting for the bridge to catch up; the
\* robot stays Disarmed and every frame carries the same signals.
NextFlood ==
    \/ BeginFrame(PwmCapacity)
    \/ ListenToPwmsArm
    \/ ListenToPwmsBatch({ACTIVE_SIGNALS})
    \/ PwmShutdown
    \/ ListenToDcArm
    \/ ListenToDcUpdate({1000})
    \/ ListenToDcComplete
    \/ DcShutdown
    \/ PwmThread
    \/ DcTasks

SpecFlood == Init /\ [][NextFlood]_vars

\* The DC bridge and its controller with the tick loop at rest: the
\* controller answers Pings and, if it honours StartStream, streams MotorState.
InitLink ==
    /\ started = "dc"
    /\ controller \in [streams : BOOLEAN, pinged : {FALSE}]
    /\ Idle
    /\ CtlIdle

NextLink ==
    \/ DcStartupSend \/ DcVersionReply \/ DcVersionOther \/ DcNotify
    \/ PingWait \/ PingSend \/ PingRecv \/ PingDone
    \/ ControllerPong \/ ControllerMotorState
    \/ TelemRecv \/ TelemOnMainThread

SpecLink == InitLink /\ [][NextLink]_vars

\* The same under the scheduling of the tokio runtime: a task that can take
\* its next step is polled in the end (the output task up to notify_waiters,
\* the ping task at every await).
SpecLinkFair ==
    /\ SpecLink
    /\ WF_vars(DcStartupSend) /\ WF_vars(DcVersionReply) /\ WF_vars(DcNotify)
    /\ WF_vars(PingWait) /\ WF_vars(PingSend) /\ WF_vars(PingRecv) /\ WF_vars(PingDone)

\* PidController::update on its own, fed any sequence of errors under any of
\* the configurations.
InitPid ==
    /\ started = "pwm"
    /\ controller = [streams |-> FALSE, pinged |-> FALSE]
    /\ Idle
    /\ pid \in {[PidIdle EXCEPT !.cfg = c] : c \in PidConfigs}
    /\ thr = ThrustIdle
    /\ sched = SchedIdle
    /\ servo = ServoIdle
    /\ lib = LibIdle

NextPid == PidStep \/ PidReset

SpecPid == InitPid /\ [][NextPid]_vars

\* accumulate_motor_forces on its own, tick after tick, under any current cap
\* and any forces asked of the thrusters.
InitThrust ==
    /\ started = "pwm"
    /\ controller = [streams |-> FALSE, pinged |-> FALSE]
    /\ Idle
    /\ pid = PidIdle
    /\ thr \in {[ThrustIdle EXCEPT !.current_cap = c] : c \in CurrentCaps}
    /\ sched = SchedIdle
    /\ servo = ServoIdle
    /\ lib = LibIdle

SpecThrust == InitThrust /\ [][AccumulateMotorForces]_vars

\* The Update schedule tick after tick: the systems of a tick run in any
\* order the schedule allows, under any environment.
InitSched ==
    /\ started = "pwm"
    /\ controller = [streams |-> FALSE, pinged |-> FALSE]
    /\ Idle
    /\ CtlIdle

NextSched ==
    \/ BeginTick
    \/ StabalizeSystem
    \/ AccumulateMovements
    \/ ScheduledMotorForces
    \/ ApplyDeferred

SpecSched == InitSched /\ [][NextSched]_vars

\* handle_servo_input on its own, tick after tick, for a servo of either
\* mode with or without a slew rate.
InitServo ==
    /\ started = "pwm"
    /\ controller = [streams |-> FALSE, pinged |-> FALSE]
    /\ Idle
    /\ pid = PidIdle
    /\ thr = ThrustIdle
    /\ sched = SchedIdle
    /\ servo \in {[ServoIdle EXCEPT !.mode = m, !.slew_rate = r] :
                     m \in {"FirstOrder", "ZerothOrder"}, r \in ServoSlewRates}
    /\ lib = LibIdle

SpecServo == InitServo /\ [][HandleServoInput]_vars

\* One call of a library function, on any of the inputs in calls.
InitLib(calls) ==
    /\ started = "pwm"
    /\ controller = [streams |-> FALSE, pinged |-> FALSE]
    /\ Idle
    /\ pid = PidIdle
    /\ thr = ThrustIdle
    /\ sched = SchedIdle
    /\ servo = ServoIdle
    /\ lib \in calls

\* create_servos for a servo on either kind of channel, with or without
\* constraints.
InitRange ==
    InitLib({[pc |-> "servo_config", channel |-> ch, constraints |-> c,
              signal_range |-> None] :
                ch \in {"PwmChannel", "DcChannel"}, c \in ServoConstraints})

SpecRange == InitRange /\ [][CreateServos]_vars

\* binary_search_force_ratio on its own, for any of the command sets and caps.
InitSearch ==
    InitLib({[pc |-> "searching", motor_cmds |-> c, st |-> SearchStart(cap), ratio |-> 0] :
                c \in SearchCommands, cap \in SearchCaps})

SpecSearch == InitSearch /\ [][SearchForceRatio]_vars

\* The round trip of the tests of solve.rs, for any of the wrenches.
InitSolve ==
    InitLib({[pc |-> "wrench", movement |-> w, forces |-> None, motor_cmds |-> None,
              actual_movement |-> None] : w \in Wrenches})

SpecSolve == InitSolve /\ [][SolveRoundtrip]_vars

\* A key inside the key range of the force index or of the current index of
\* a calibration table, looked up through the bucket table and by binary
\* search, in either order.
InitIndex ==
    InitLib(UNION {{[pc |-> "keyed", value |-> value, by |-> by, key |-> key,
                     lookup |-> None, nearest |-> None,
                     binary_search |-> None, searched |-> None] :
                       key \in KeyPoints(IndexOf(value, by))} :
                   value \in CalibrationTables, by \in {"force", "current"}})

NextIndex == LookupByKey \/ BinarySearchByKey

SpecIndex == InitIndex /\ [][NextIndex]_vars

----------------------------------------------------------------------------
(* Properties of the PWM bridge                                            *)

\* the step that runs dead-man, soft start, sync and set_pwms of one cycle
PwmCycleStep == pwm.pc = "update" /\ pwm'.pc = "sleep"
\* a step of try_iter() that hands the thread one event
PwmEventStep == pwm.pc = "drain" /\ pwm_rx # <<>> /\ pwm_rx' = Tail(pwm_rx)

\* C1: every cycle whose write happens while the thread is Disarmed writes
\* 1500 us on all 16 channels and leaves the chip's outputs disabled, whatever
\* batches were received before or during that cycle.
C1_DisarmedWritesNeutral ==
    pwm_obs.armed = "Disarmed" =>
        /\ \A c \in Channels : chip.pwms[c] = NEUTRAL_US
        /\ ~chip.output_enabled

\* a Disarmed cycle has written although a Batch arrived during that cycle
C1_Witness ==
    /\ pwm.pc = "sleep"
    /\ pwm_obs.armed = "Disarmed"
    /\ pwm_obs.batch_seen
    /\ ~pwm_obs.inactivity

\* C2: an Armed thread whose last Arm(Armed) is more than max_inactive old
\* becomes Disarmed in that cycle, sends the inactivity error and writes
\* neutral; from then on only an Arm(Armed) event arms it again, a Batch
\* received while Disarmed leaves channel_pwms neutral, and every Disarmed
\* cycle writes 1500 us.
C2_DeadMan ==
    [][ /\ (PwmCycleStep /\ pwm.armed = "Armed" /\ pwm.last_arm_elapsed > max_inactive)
            => /\ pwm'.armed = "Disarmed"
               /\ pwm_obs'.inactivity
               /\ chip'.pwms = STOP_PWMS
        /\ (pwm.armed = "Disarmed" /\ pwm'.armed = "Armed")
            => PwmEventStep /\ Head(pwm_rx) = ArmEvent("Armed")
        /\ (PwmEventStep /\ pwm.armed = "Disarmed" /\ Head(pwm_rx).type = "Batch")
            => pwm'.armed = "Disarmed" /\ pwm'.channel_pwms = STOP_PWMS
        /\ (PwmCycleStep /\ pwm'.armed = "Disarmed")
            => chip'.pwms = STOP_PWMS
      ]_vars

\* after a dead-man cycle a Batch has arrived with the thread still Disarmed
C2_Witness ==
    /\ pwm_obs.inactivity
    /\ pwm.pc = "update"
    /\ pwm.batch_seen
    /\ pwm.armed = "Disarmed"

\* C3: a cycle writes a pulse width other than 1500 us only when the thread
\* is Armed and at least arming_duration has passed since armed last went
\* from Disarmed to Armed; until then every write is neutral.
C3_SoftStart ==
    [][ PwmCycleStep =>
          /\ (chip'.pwms # STOP_PWMS
                => pwm'.armed = "Armed" /\ pwm.since_edge >= arming_duration)
          /\ (pwm.since_edge < arming_duration
                => \A c \in Channels : chip'.pwms[c] = NEUTRAL_US)
      ]_vars

\* an Armed cycle inside the soft start has written neutral although a
\* Batch arrived during that cycle
C3_Witness ==
    /\ pwm.pc = "sleep"
    /\ pwm.armed = "Armed"
    /\ pwm.batch_seen
    /\ pwm.since_edge < arming_duration
    /\ chip.pwms = STOP_PWMS
    /\ chip.output_enabled

\* the soft start is over and the thread drives the motors
PwmDriving == chip.pwms = ACTIVE_SIGNALS /\ chip.output_enabled

\* C6: once Shutdown is processed the thread takes no further event from
\* the channel, writes exactly once more (outputs disabled, 1500 us on all
\* channels) and returns; nothing is written after that.
C6_Shutdown ==
    /\ [](pwm_obs.after_shutdown <= 1)
    /\ [](pwm.pc = "done" =>
            /\ pwm_obs.after_shutdown = 1
            /\ chip = [pwms |-> STOP_PWMS, output_enabled |-> FALSE])
    /\ [][ /\ pwm.do_shutdown => Len(pwm_rx') >= Len(pwm_rx)
           /\ pwm.pc = "done" => chip' = chip /\ pwm' = pwm
       ]_vars

\* the thread has returned and left events behind Shutdown in the channel
C6_Witness ==
    /\ pwm.pc = "done"
    /\ pwm_rx # <<>>

----------------------------------------------------------------------------
(* Properties of the DC bridge and of both bridges                         *)

\* the step that runs dead-man and the SetArmed / SetSpeed sends of one tick
DcTickStep == dc.pc = "update" /\ dc'.pc \in {"tick", "done"}
\* a step of try_recv() that hands the task one event
DcEventStep == dc.pc = "drain" /\ dc_rx # <<>> /\ dc_rx' = Tail(dc_rx)

\* C4: whenever a bridge is Disarmed at its write the outputs are the safe
\* value (1500 us, speed 0), and every other value it emits was taken from
\* a batch it received after it last became Armed, never from a batch it
\* held before a disarm.
C4_NoLeakAcrossFault ==
    /\ pwm_obs.armed = "Disarmed" => chip.pwms = STOP_PWMS
    /\ chip.pwms # STOP_PWMS => pwm_obs.armed = "Armed" /\ pwm_obs.src = "fresh"
    /\ dc_out.armed = "Disarmed" => dc_out.speeds = DC_STOP_SIGNALS
    /\ dc_out.speeds # DC_STOP_SIGNALS => dc_out.armed = "Armed" /\ dc_obs.src = "fresh"

\* the DC bridge was Armed, then Disarmed, and drives the motors again
C4_Witness ==
    /\ dc_obs.faults = 1
    /\ dc_out.armed = "Armed"
    /\ dc_out.speeds # DC_STOP_SIGNALS

\* C5: once the shutdown system has read the AppExit event, the DC output
\* task has the Shutdown event (in its channel or already processed).
C5_ShutdownDelivered ==
    (started = "dc" /\ frame.exit_read) =>
        \/ \E i \in 1 .. Len(dc_rx) : dc_rx[i].type = "Shutdown"
        \/ dc.do_shutdown

\* C7: the tick loop is never parked inside a send to a bridge.
C7_TickNeverBlocks == ~frame.blocked

\* C8: a tick of the DC output task that is Disarmed when it sends, sends
\* SetArmed(Disarmed) and SetSpeed 0 on each of the 4 channels; an
\* UpdateChannel or BatchComplete received after an Arm(Disarmed) leaves the
\* task Disarmed and its channel_pwms untouched.
C8_DcDisarmedZero ==
    [][ /\ (DcTickStep /\ dc'.armed = "Disarmed")
            => /\ dc_out'.armed = "Disarmed"
               /\ \A i \in DcChannels : dc_out'.speeds[i] = 0
        /\ (DcEventStep /\ dc.last_arm = "Disarmed"
              /\ Head(dc_rx).type \in {"UpdateChannel", "BatchComplete"})
            => /\ dc'.armed = "Disarmed"
               /\ dc'.channel_pwms = dc.channel_pwms
      ]_vars

\* a Disarmed tick has sent its packets after the events of a batch
\* followed an Arm(Disarmed) in that tick
C8_Witness ==
    /\ dc.pc = "tick"
    /\ dc_obs.ticks = 1
    /\ dc.last_arm = "Disarmed"
    /\ dc.batch_seen
    /\ dc_out.armed = "Disarmed"

\* C9 as stated: Armed and more than max_inactive since the last Arm(Armed)
\* was received => the tick disarms, reports and sends the safe outputs.
C9_DeadManSinceArm ==
    [][ (DcTickStep /\ dc.armed = "Armed" /\ dc.since_arm > max_inactive)
            => /\ dc'.armed = "Disarmed"
               /\ dc_obs'.inactivity
               /\ dc_out'.armed = "Disarmed"
               /\ dc_out'.speeds = DC_STOP_SIGNALS
      ]_vars

\* C9 (amended): Armed and more than max_inactive since the last batch was
\* completed (BatchComplete of a started batch) => the tick disarms, reports
\* 'Motors disarmed due to inactivity' and sends SetArmed(Disarmed) with
\* speed 0 on all channels.
C9_DeadManSinceBatch ==
    [][ (DcTickStep /\ dc.armed = "Armed" /\ dc.last_batch_elapsed > max_inactive)
            => /\ dc'.armed = "Disarmed"
               /\ dc_obs'.inactivity
               /\ dc_out'.armed = "Disarmed"
               /\ dc_out'.speeds = DC_STOP_SIGNALS
      ]_vars

\* a tick has disarmed the DC bridge for inactivity
C9_Witness ==
    /\ dc.pc = "tick"
    /\ dc_obs.inactivity
    /\ dc.armed = "Disarmed"
    /\ dc_obs.faults = 1

\* C10: until `connected` is signalled the packets sent are, in order,
\* ReadProtocolVersion (one or more), SetArmed(Disarmed), StartStream for all
\* motors, SetSpeed 0 for all motors; the signal is given only after the whole
\* sequence, and no tick packet and no Ping is sent before it.
StartupSequence == <<"SetArmed(Disarmed)", "StartStream(all)", "SetSpeed(all,0)">>
VersionRequests(log) ==
    CHOOSE n \in 0 .. Len(log) :
        /\ \A i \in 1 .. n : log[i] = "ReadProtocolVersion"
        /\ n < Len(log) => log[n + 1] # "ReadProtocolVersion"
AfterVersion(log) == SubSeq(log, VersionRequests(log) + 1, Len(log))
IsPrefix(a, b) == Len(a) <= Len(b) /\ SubSeq(b, 1, Len(a)) = a

C10_StartupOrder ==
    /\ [](~dc.connected =>
            /\ IsPrefix(AfterVersion(dc_out.log), StartupSequence)
            /\ dc_out.log # <<>> => VersionRequests(dc_out.log) >= 1
            /\ dc_obs.ticks = 0
            /\ ping.pc \in {"start", "waiting"})
    /\ [][ (~dc.connected /\ dc'.connected)
            => /\ VersionRequests(dc_out.log) >= 1
               /\ AfterVersion(dc_out.log) = StartupSequence
       ]_vars

\* the startup is over (after a repeated version request), the output task
\* has sent a tick's packets and the ping task a Ping
C10_Witness ==
    /\ dc.connected
    /\ dc_obs.ticks = 1
    /\ ping.pc = "await_pong"

\* the version request is repeated during startup
VersionRetried == dc.pc = "version" /\ dc.retries = MaxVersionRetries

----------------------------------------------------------------------------
(* Properties of the link to the DC motor controller                       *)

\* the step that ends the wait for a Pong
PingWaitEnds == ping.pc = "await_pong" /\ ping'.pc = "interval"
\* the packet that recv() hands the ping task in this step is the Pong
\* carrying the id of the Ping just sent
MatchingPong ==
    /\ ~rx_in.ping.lagged
    /\ rx_in.ping.q # <<>>
    /\ Head(rx_in.ping.q) = Pong(ping.sent_id)

\* C11: when the wait for the Pong ends on a Pong that carries the id of the
\* Ping that was sent, the unacknowledged-ping counter becomes 0; when it
\* ends without such a Pong, the counter grows by one.
C11_PingCounter ==
    [][ PingWaitEnds =>
          IF MatchingPong
          THEN ping'.un_acked_pings = 0
          ELSE ping'.un_acked_pings = ping.un_acked_pings + 1
      ]_vars

\* C12: after the telemetry task's receiver has reported lag the task is
\* still running, so that the MotorState packets behind the lag are forwarded.
C12_ForwardsAfterLag ==
    (telem.lagged /\ \E i \in 1 .. Len(rx_in.telem.q) : rx_in.telem.q[i].type = "MotorState")
        => telem.pc \in {"recv", "main"}

----------------------------------------------------------------------------
(* Properties of PidController::update                                     *)

\* the step that is one call of update, and the error it is called with
PidUpdateStep == Len(pid'.errors) = Len(pid.errors) + 1
PidFedError == pid'.errors[Len(pid'.errors)]

\* C17: after every update the stored integral lies within +-max_integral.
C17_IntegralContained == Abs(pid.ctrl.integral) <= pid.cfg.max_integral

\* an update has cut the integral back to max_integral
C17_Witness ==
    /\ pid.errors # <<>>
    /\ pid.cfg.max_integral > 0
    /\ pid.ctrl.integral = pid.cfg.max_integral
    /\ pid.prev.integral + Mul(pid.errors[Len(pid.errors)], PidInterval) > pid.cfg.max_integral

\* C18: an update with |e| >= i_zone returns i = 0 and leaves the stored
\* integral at 0; an update with |e| < i_zone stores
\* clamp(previous integral + e * dt, +-max_integral) and returns ki times it.
\* Errors 5, 5, 5, 0.1 with i_zone 0.5 and dt 0.1 store 0, 0, 0, 0.01.
C18_IZone ==
    /\ [][ PidUpdateStep =>
             IF Abs(PidFedError) >= pid.cfg.i_zone
             THEN pid'.res.i = 0 /\ pid'.ctrl.integral = 0
             ELSE /\ pid'.ctrl.integral =
                        Clamp(pid.ctrl.integral + Mul(PidFedError, PidInterval),
                              -pid.cfg.max_integral, pid.cfg.max_integral)
                  /\ pid'.res.i = Mul(pid.cfg.ki, pid'.ctrl.integral)
         ]_vars
    /\ []((pid.cfg.i_zone = 500 /\ pid.cfg.max_integral >= 10
             /\ pid.errors = <<5000, 5000, 5000, 100>>)
            => pid.integrals = <<0, 0, 0, 10>>)

\* the four updates of the scenario have run
C18_Witness ==
    /\ pid.cfg.i_zone = 500
    /\ pid.cfg.max_integral = 10000
    /\ pid.errors = <<5000, 5000, 5000, 100>>
    /\ pid.ctrl.integral = 10
    /\ pid.res.i = 10

\* C19: on an update after the first the d term is kd * (e_f - e_prev) / dt
\* with e_f = alpha * e + (1 - alpha) * e_prev and e_prev the stored last
\* error, and e_f is what is stored as last error; on the first update the d
\* term is 0.
C19_FilteredDerivative ==
    [][ PidUpdateStep =>
          IF pid.ctrl.last_error = None
          THEN pid'.res.d = 0
          ELSE LET e_prev == pid.ctrl.last_error[1]
                   e_f == Mul(PidFedError, pid.cfg.d_alpha)
                            + Mul(e_prev, FixedPoint - pid.cfg.d_alpha)
               IN /\ pid'.res.d = Mul(pid.cfg.kd, Div(e_f - e_prev, PidInterval))
                  /\ pid'.ctrl.last_error = Some(e_f)
      ]_vars

\* C14: for every thruster with a command stored from the tick before, the
\* force stored at the end of accumulate_motor_forces is within
\* jerk_limit * dt of that stored force.
C14_SlewBound ==
    \A m \in DOMAIN thr.before :
        Abs(thr.last_movement[m].force - thr.before[m].force)
            <= (JerkLimit * DeltaSecs) \div 1000

\* the slew step on its own keeps every thruster within jerk_limit * dt
SlewStepBound ==
    \A m \in DOMAIN thr.before :
        Abs(thr.run.slewed[m].force - thr.before[m].force)
            <= (JerkLimit * DeltaSecs) \div 1000

\* C15: when the commands handed to clamp_amperage draw more than the cap in
\* total, the forces are scaled by one ratio in [0, 1] and the commands
\* returned draw at most cap + epsilon in total.
C15_ClampFeasible ==
    AmperageTotal(thr.run.looked_up) > thr.current_cap =>
        /\ thr.force_ratio \in 0 .. RatioOne
        /\ \A m \in Thrusters :
              thr.run.clamped[m] =
                  LookupByForce(MulRatio(thr.run.looked_up[m].force, thr.force_ratio),
                                Directions[m])
        /\ AmperageTotal(thr.run.clamped) <= thr.current_cap + ClampEpsilon

\* the ratio clamp_amperage applies lies in [0, 1]
ClampRatioInUnit == thr.force_ratio \in 0 .. RatioOne

\* the Update schedule of the tick has run to its end
TickEnded == sched.tick > 0 /\ sched.done = Systems /\ sched.unapplied = {}

\* C13: in every tick the MovementContributions the PID system inserts in
\* that tick are the ones accumulate_movements sums, and the
\* ThrustContribution accumulate_movements inserts in that tick is the one
\* accumulate_motor_forces reads.
C13_SameTickSnapshot ==
    TickEnded /\ ~sched.env.disable_movement_api =>
        /\ \A a \in PidAxes :
              sched.contribution[a] # None /\ sched.contribution[a][1].tick = sched.tick
                  => sched.summed[a] = Some(sched.tick)
        /\ sched.dispatched = Some(sched.tick)

\* accumulate_motor_forces reads the ThrustContribution of its own tick
ThrustSameTick ==
    TickEnded /\ ~sched.env.disable_movement_api => sched.dispatched = Some(sched.tick)

\* the robot is Armed and the readings and targets the axis needs are there
GateOpen(a) ==
    /\ robot_armed = "Armed"
    /\ sched.env.orientation
    /\ IF a = "Depth" THEN sched.env.depth /\ sched.env.depth_target
       ELSE sched.env.orientation_target

\* C16: at the end of a tick in which the robot is not Armed, or a reading
\* or target an axis needs is absent, the axis has no MovementContribution
\* and no PidResult and its integrator is zero; an axis with a
\* MovementContribution at the end of a tick had the robot Armed and its
\* readings and targets present.
C16_PidGating ==
    TickEnded =>
        \A a \in PidAxes :
            /\ ~GateOpen(a) =>
                  /\ sched.contribution[a] = None
                  /\ sched.result[a] = None
                  /\ sched.state[a].integral = 0
            /\ sched.contribution[a] # None => GateOpen(a)

\* an axis that had integrated in an Armed tick ends a Disarmed tick gated off
C16_Witness ==
    /\ TickEnded
    /\ sched.tick = 2
    /\ robot_armed = "Disarmed"
    /\ sched.actual_force # [m \in Thrusters |-> 0]
    /\ \A a \in PidAxes : sched.contribution[a] = None /\ sched.state[a].integral = 0

\* C20: a FirstOrder servo ends a tick at clamp(last + input * dt, -1, 1),
\* and at 0 when ResetServo(id) was received in the tick, whatever its
\* contribution in that tick.
C20_FirstOrderReset ==
    servo.mode = "FirstOrder" /\ servo.positions # <<>> /\ ~servo.full_reset =>
        PositionOr0(servo.target) =
            IF servo.should_reset THEN 0
            ELSE Clamp(PositionOr0(servo.last)
                          + Mul(IF servo.input = None THEN 0 ELSE servo.input[1], DeltaSecs),
                       -1000, 1000)

\* without a reset in the tick a FirstOrder servo ends it at
\* clamp(last + input * dt, -1, 1)
ServoIntegrates ==
    servo.mode = "FirstOrder" /\ servo.positions # <<>>
        /\ ~servo.full_reset /\ ~servo.should_reset =>
        PositionOr0(servo.target) =
            Clamp(PositionOr0(servo.last)
                     + Mul(IF servo.input = None THEN 0 ELSE servo.input[1], DeltaSecs),
                  -1000, 1000)

\* C21: a tick in which ResetServos is received leaves the servo at position
\* 0, in MotorTargets and in the emitted MotorSignal::Percent, whatever its
\* mode and whether or not it has a contribution in that tick.
C21_ResetAll ==
    servo.positions # <<>> /\ servo.full_reset =>
        PositionOr0(servo.target) = 0 /\ servo.signal = 0

\* what ResetServos does do: a FirstOrder servo that has a contribution in
\* the tick integrates it from 0, every other servo is as without the event
ResetAllRestartsIntegration ==
    servo.positions # <<>> /\ servo.full_reset =>
        servo.target =
            IF servo.mode = "FirstOrder" /\ servo.input # None
            THEN Some(Clamp(Mul(servo.input[1], DeltaSecs), -1000, 1000))
            ELSE NewPosition(servo.mode, servo.input, servo.last, FALSE,
                             servo.should_reset)

\* C22: after every tick the position in MotorTargets and the emitted
\* MotorSignal::Percent lie in [-1, 1], for either mode.
C22_PositionInRange ==
    servo.positions # <<>> =>
        /\ PositionOr0(servo.target) \in -1000 .. 1000
        /\ servo.signal \in -1000 .. 1000

\* the FirstOrder half of it: the integrated position is clamped
FirstOrderInRange ==
    servo.mode = "FirstOrder" =>
        /\ PositionOr0(servo.target) \in -1000 .. 1000
        /\ servo.signal \in -1000 .. 1000

C24_MovementApiBypassed ==
    [][sched.env.disable_movement_api /\ sched'.tick = sched.tick =>
          /\ sched'.thrust = sched.thrust
          /\ sched'.thrust_cmd = sched.thrust_cmd
          /\ sched'.report = sched.report
          /\ sched'.report_cmd = sched.report_cmd
          /\ sched'.actual_force = sched.actual_force
          /\ sched'.force_cmd = sched.force_cmd
          /\ thr' = thr]_vars

\* a tick with DisableMovementApi has ended after a tick that drove the
\* thrusters: both systems have run and the outputs are those of that tick
C24_Witness ==
    /\ TickEnded
    /\ sched.tick = 2
    /\ sched.env.disable_movement_api
    /\ sched.dispatched = Some(1)
    /\ sched.report.actual_movement.force # 0
    /\ sched.report.signal[1].kind = "Raw"
    /\ thr.ticks = 1

\* C25: the MotorRawSignalRange of every actuator has min <= center <= max,
\* the range create_servos narrows by the constraints of a servo included.
C25_RangeOrdered ==
    lib.pc = "servo_spawned" =>
        /\ lib.signal_range.min <= lib.signal_range.center
        /\ lib.signal_range.center <= lib.signal_range.max

\* the range is ordered when the constraints have min <= 0 <= max, and
\* without constraints
RangeOrderedAroundZero ==
    lib.pc = "servo_spawned"
        /\ (lib.constraints # None =>
               lib.constraints[1].min <= 0 /\ 0 <= lib.constraints[1].max) =>
        /\ lib.signal_range.min <= lib.signal_range.center
        /\ lib.signal_range.center <= lib.signal_range.max

\* C26: for a key inside the key range of an index, lookup_nearest returns
\* the pair of records binary_search_nearest returns, the interpolated
\* records of the two lookups are equal, and the key of the interpolated
\* record is the key asked for.
C26_LookupIsBinarySearch ==
    lib.pc = "keyed" /\ lib.lookup # None /\ lib.binary_search # None =>
        /\ lib.nearest = lib.searched
        /\ lib.lookup = lib.binary_search
        /\ Supplier(lib.by, lib.lookup[1]) = lib.key

\* a signed current strictly between two records, above the middle record
\* of its bucket, has been looked up both ways
C26_Witness ==
    /\ lib.pc = "keyed"
    /\ lib.lookup # None
    /\ lib.binary_search # None
    /\ lib.by = "current"
    /\ Supplier(lib.by, lib.nearest[1][1]) < lib.key
    /\ lib.key < Supplier(lib.by, lib.nearest[1][2])
    /\ \E index \in {IndexOf(lib.value, lib.by)} :
          \E e \in {index.lookup_table[Compress(index.float_compression, lib.key)]} :
             e.mid # None /\ e.mid[1] = lib.nearest[1][1]

\* movement_error.force.norm_squared() < 0.0001 and the same for the torque,
\* in thousandths squared
RoundtripTolerance == 100
RoundtripClose ==
    /\ (lib.movement.force - lib.actual_movement.force)
          * (lib.movement.force - lib.actual_movement.force) < RoundtripTolerance
    /\ (lib.movement.torque - lib.actual_movement.torque)
          * (lib.movement.torque - lib.actual_movement.torque) < RoundtripTolerance

\* C27 as stated: for any wrench in the column span of the allocation
\* matrix, the wrench after reverse_solve, forces_to_cmds and forward_solve
\* is within 10^-4 of it in squared norm, in force and in torque.
C27_RoundtripAnyWrench == lib.pc = "solved" => RoundtripClose

\* C27, amended: the same for any wrench whose thruster forces lie inside
\* the force range of the motor-performance table.
C27_RoundtripInRange ==
    lib.pc = "solved"
        /\ (\A m \in Thrusters :
               /\ MotorDataRes.force_index.float_compression.min <= lib.forces[m]
               /\ lib.forces[m] <= MotorDataRes.force_index.float_compression.max) =>
        RoundtripClose

\* a wrench with force and torque has gone round, every thruster asked for
\* a force strictly between two rows of the table
C27_Witness ==
    /\ lib.pc = "solved"
    /\ lib.movement.force # 0
    /\ lib.movement.torque # 0
    /\ \A m \in Thrusters :
          /\ lib.forces[m] # 0
          /\ lib.motor_cmds[m].force = lib.forces[m]
          /\ \A i \in DOMAIN MotorTable : MotorTable[i].force # lib.forces[m]

\* C28: binary_search_force_ratio returns after at most 15 passes through
\* its loop, the passes that take the saturation branch counted.
C28_FifteenPasses == lib.pc \in {"searching", "returned"} => lib.st.passes <= 15

\* the search returns: no more than 15 passes outside the saturation branch,
\* and two passes through it at most, one for each end of the table
SearchReturns ==
    /\ lib.pc = "searching" => lib.st.passes < 15 + 2 /\ lib.st.max_iters > 0
    /\ lib.pc = "returned" => lib.st.passes <= 15 + 2
    /\ lib.pc \in {"searching", "returned"} =>
          lib.st.passes - (15 - lib.st.max_iters) \in 0 .. 2

\* the channel_pwms one complete batch of listen_to_dc_motors gives: every DC
\* motor of the robot has its channel in it, all with the output of one frame
CompleteBatches == {[c \in Range(DcMotors) |-> v] : v \in DcSpeeds}

\* C29: the speeds the DC bridge applies while Armed are those of one
\* complete batch, whether its events were drained in one tick or in two:
\* channel_pwms is replaced only at the BatchComplete of a batch that an
\* Arm(Armed) started, by all the UpdateChannel values of that batch; an
\* UpdateChannel outside a started batch changes nothing; and the bridge
\* goes from Disarmed to Armed only at such a BatchComplete.
C29_WholeBatchApplied ==
    [][ /\ (dc'.channel_pwms # dc.channel_pwms /\ dc'.channel_pwms # EmptyMap)
            => /\ DcEventStep
               /\ Head(dc_rx).type = "BatchComplete"
               /\ dc.batch_started
               /\ dc.last_arm = "Armed"
               /\ dc'.channel_pwms \in CompleteBatches
               /\ dc'.channel_pwms = dc.next_channel_pwms
        /\ (dc.armed = "Disarmed" /\ dc'.armed = "Armed")
            => /\ DcEventStep
               /\ Head(dc_rx).type = "BatchComplete"
               /\ dc.batch_started
               /\ dc.last_arm = "Armed"
        /\ (DcEventStep /\ Head(dc_rx).type = "UpdateChannel" /\ ~dc.batch_started)
            => /\ dc'.next_channel_pwms = dc.next_channel_pwms
               /\ dc'.channel_pwms = dc.channel_pwms
               /\ dc'.armed = dc.armed
        /\ (DcTickStep /\ dc_out'.armed = "Armed")
            => \E m \in CompleteBatches : dc_out'.speeds = DcPwms([channel_pwms |-> m])
      ]_vars

\* a batch was drained across two ticks (its Arm(Armed) came in before the
\* task last slept, its BatchComplete after) and the tick that followed
\* applied its speeds
C29_Witness ==
    /\ dc.pc = "tick"
    /\ dc.last_arm = "Armed"
    /\ dc.since_arm > 0
    /\ dc.last_batch_elapsed = 0
    /\ ~dc.batch_started
    /\ dc_out.armed = "Armed"
    /\ dc.channel_pwms \in CompleteBatches
    /\ dc_out.speeds = DcPwms(dc)

\* C30: once the output task has signalled `connected`, the ping task
\* sends a Ping in the end, whatever the order in which the two tasks ran.
C30_PingStarts == dc.connected ~> (ping.tx_id > FirstPingId)

\* the notification reaches a ping task that holds its Notified future when
\* notify_waiters() is called
PingStartsWhenWaiting ==
    (dc.pc = "notify" /\ ping.pc = "waiting") ~> (ping.tx_id > FirstPingId)

====
